---- MODULE Spec2Model ----
(***************************************************************************)
(* A model of react-chess-game: the move generator, the legality filter,   *)
(* the game-state classifier, the evaluator and the minimax search of      *)
(* src/utils, and the live game kept by the ChessGame component.           *)
(*                                                                         *)
(* Boards are board[row][col], row 0 being black's back rank.  null is     *)
(* modelled by NoPiece (a cell, a captured piece), NoPos (a position),     *)
(* "none" (a piece type) and NoMove (a move).  Arrays are sequences.       *)
(***************************************************************************)
EXTENDS Integers, Sequences, FiniteSets, TLC

\* ------------------------------------------------------------------ types.ts

BOARD_SIZE == 8

Rows == 0 .. (BOARD_SIZE - 1)

Cols == 0 .. (BOARD_SIZE - 1)

WHITE == "white"

BLACK == "black"

NoPiece == [type |-> "none", color |-> "none", hasMoved |-> FALSE]

NoPos == [row |-> -1, col |-> -1]

Pos(r, c) == [row |-> r, col |-> c]

Pc(t, c, m) == [type |-> t, color |-> c, hasMoved |-> m]

PIECE_VALUES ==
  [pawn |-> 100, knight |-> 320, bishop |-> 330, rook |-> 500, queen |-> 900, king |-> 20000]

DIRECTIONS ==
  [NORTH |-> Pos(-1, 0), NORTHEAST |-> Pos(-1, 1), EAST |-> Pos(0, 1), SOUTHEAST |-> Pos(1, 1),
   SOUTH |-> Pos(1, 0), SOUTHWEST |-> Pos(1, -1), WEST |-> Pos(0, -1), NORTHWEST |-> Pos(-1, -1)]

KNIGHT_MOVES ==
  << Pos(-2, -1), Pos(-2, 1), Pos(-1, -2), Pos(-1, 2),
     Pos(1, -2), Pos(1, 2), Pos(2, -1), Pos(2, 1) >>

AI_DEPTH == [easy |-> 1, medium |-> 2, hard |-> 3]

\* A Move object; the optional fields are present and hold the null of their type.
Mv(from, to, type, piece, capturedPiece, promotionPieceType, castlingRookFrom, castlingRookTo, enPassantCapturePos) ==
  [from |-> from, to |-> to, type |-> type, piece |-> piece,
   capturedPiece |-> capturedPiece, promotionPieceType |-> promotionPieceType,
   castlingRookFrom |-> castlingRookFrom, castlingRookTo |-> castlingRookTo,
   enPassantCapturePos |-> enPassantCapturePos]

NoMove == Mv(NoPos, NoPos, "none", NoPiece, NoPiece, "none", NoPos, NoPos, NoPos)

\* The default value of the castlingRights parameter.
DefaultCastlingRights ==
  [white |-> [kingSide |-> TRUE, queenSide |-> TRUE],
   black |-> [kingSide |-> TRUE, queenSide |-> TRUE]]

opposite(color) == IF color = WHITE THEN BLACK ELSE WHITE

\* ------------------------------------------------------------- boardUtils.ts

isValidPosition(position) ==
  /\ position.row >= 0
  /\ position.row < BOARD_SIZE
  /\ position.col >= 0
  /\ position.col < BOARD_SIZE

EmptyBoard == [r \in Rows |-> [c \in Cols |-> NoPiece]]

\* parseFEN's piece letters, lower case black and upper case white.
FenPiece(ch) ==
  CASE ch = "p" -> Pc("pawn", BLACK, FALSE)
    [] ch = "r" -> Pc("rook", BLACK, FALSE)
    [] ch = "n" -> Pc("knight", BLACK, FALSE)
    [] ch = "b" -> Pc("bishop", BLACK, FALSE)
    [] ch = "q" -> Pc("queen", BLACK, FALSE)
    [] ch = "k" -> Pc("king", BLACK, FALSE)
    [] ch = "P" -> Pc("pawn", WHITE, FALSE)
    [] ch = "R" -> Pc("rook", WHITE, FALSE)
    [] ch = "N" -> Pc("knight", WHITE, FALSE)
    [] ch = "B" -> Pc("bishop", WHITE, FALSE)
    [] ch = "Q" -> Pc("queen", WHITE, FALSE)
    [] ch = "K" -> Pc("king", WHITE, FALSE)
    [] OTHER -> NoPiece

\* INITIAL_POSITION, its board part as the rows of letters parseFEN walks.
INITIAL_POSITION ==
  << <<"r", "n", "b", "q", "k", "b", "n", "r">>,
     <<"p", "p", "p", "p", "p", "p", "p", "p">>,
     <<"8">>, <<"8">>, <<"8">>, <<"8">>,
     <<"P", "P", "P", "P", "P", "P", "P", "P">>,
     <<"R", "N", "B", "Q", "K", "B", "N", "R">> >>

\* The value of a digit of the board part (Number(char) is not NaN), else -1.
FenDigit(ch) ==
  CASE ch = "1" -> 1 [] ch = "2" -> 2 [] ch = "3" -> 3 [] ch = "4" -> 4
    [] ch = "5" -> 5 [] ch = "6" -> 6 [] ch = "7" -> 7 [] ch = "8" -> 8
    [] OTHER -> -1

\* parseFEN's inner loop over the characters of one row, from character j at column col.
RECURSIVE parseFENRow(_, _, _, _)
parseFENRow(chars, j, col, cells) ==
  IF j > Len(chars) THEN cells
  ELSE IF FenDigit(chars[j]) = -1
  THEN IF FenPiece(chars[j]) = NoPiece
       THEN parseFENRow(chars, j + 1, col, cells)
       ELSE parseFENRow(chars, j + 1, col + 1, [cells EXCEPT ![col] = FenPiece(chars[j])])
  ELSE parseFENRow(chars, j + 1, col + FenDigit(chars[j]), cells)

\* parseFEN of "<board part> w KQkq - 0 1": white to move, all rights, no target.
parseFEN(fen) ==
  [board |-> [r \in Rows |-> parseFENRow(fen[r + 1], 1, 0, [c \in Cols |-> NoPiece])],
   activeColor |-> WHITE,
   castlingRights |-> DefaultCastlingRights,
   enPassantTarget |-> NoPos]

\* -------------------------------------------------------------- gameUtils.ts

RECURSIVE addPawnPromotionMovesFrom(_, _, _, _, _, _)
addPawnPromotionMovesFrom(promotionPieces, i, from, to, piece, capturedPiece) ==
  IF i > Len(promotionPieces) THEN << >>
  ELSE << Mv(from, to,
             IF capturedPiece # NoPiece THEN "capture-and-promotion" ELSE "promotion",
             piece, capturedPiece, promotionPieces[i], NoPos, NoPos, NoPos) >>
       \o addPawnPromotionMovesFrom(promotionPieces, i + 1, from, to, piece, capturedPiece)

\* addPawnPromotionMoves that offers the queen only.
addQueenPromotionMove(from, to, piece, capturedPiece) ==
  addPawnPromotionMovesFrom(<<"queen">>, 1, from, to, piece, capturedPiece)

addPawnPromotionMoves(from, to, piece, capturedPiece) ==
  addPawnPromotionMovesFrom(<<"queen", "rook", "bishop", "knight">>, 1,
                            from, to, piece, capturedPiece)

\* One entry of getPawnMoves' captureMoves loop.
pawnCaptureMoves(board, position, piece, captureMove, enPassantTarget) ==
  IF ~isValidPosition(captureMove) THEN << >>
  ELSE
    LET targetPiece == board[captureMove.row][captureMove.col]
        regular ==
          IF targetPiece # NoPiece /\ targetPiece.color # piece.color
          THEN IF \/ (piece.color = WHITE /\ captureMove.row = 0)
                  \/ (piece.color = BLACK /\ captureMove.row = 7)
               THEN addPawnPromotionMoves(position, captureMove, piece, targetPiece)
               ELSE << Mv(position, captureMove, "capture", piece, targetPiece,
                          "none", NoPos, NoPos, NoPos) >>
          ELSE << >>
        enPassant ==
          IF /\ enPassantTarget # NoPos
             /\ captureMove.row = enPassantTarget.row
             /\ captureMove.col = enPassantTarget.col
          THEN LET capturedPawnPos == Pos(position.row, enPassantTarget.col)
                   capturedPawn == board[capturedPawnPos.row][capturedPawnPos.col]
               IN IF /\ capturedPawn # NoPiece
                     /\ capturedPawn.type = "pawn"
                     /\ capturedPawn.color # piece.color
                  THEN << Mv(position, captureMove, "en-passant", piece, capturedPawn,
                             "none", NoPos, NoPos, capturedPawnPos) >>
                  ELSE << >>
          ELSE << >>
    IN regular \o enPassant

\* getPawnMoves whose two-square advance tests only the square it lands on.
getPawnMovesJumping(board, position, piece, enPassantTarget) ==
  LET row == position.row
      col == position.col
      direction == IF piece.color = WHITE THEN -1 ELSE 1
      oneForward == Pos(row + direction, col)
      twoForward == Pos(row + 2 * direction, col)
  IN (IF isValidPosition(oneForward) /\ board[oneForward.row][oneForward.col] = NoPiece
      THEN IF \/ (piece.color = WHITE /\ oneForward.row = 0)
              \/ (piece.color = BLACK /\ oneForward.row = 7)
           THEN addPawnPromotionMoves(position, oneForward, piece, NoPiece)
           ELSE << Mv(position, oneForward, "normal", piece, NoPiece,
                      "none", NoPos, NoPos, NoPos) >>
      ELSE << >>)
     \o (IF /\ \/ (piece.color = WHITE /\ row = 6)
                \/ (piece.color = BLACK /\ row = 1)
             /\ isValidPosition(twoForward)
             /\ board[twoForward.row][twoForward.col] = NoPiece
          THEN << Mv(position, twoForward, "normal", piece, NoPiece,
                     "none", NoPos, NoPos, NoPos) >>
          ELSE << >>)
     \o pawnCaptureMoves(board, position, piece, Pos(row + direction, col - 1), enPassantTarget)
     \o pawnCaptureMoves(board, position, piece, Pos(row + direction, col + 1), enPassantTarget)

getPawnMoves(board, position, piece, enPassantTarget) ==
  LET row == position.row
      col == position.col
      direction == IF piece.color = WHITE THEN -1 ELSE 1
      oneForward == Pos(row + direction, col)
      twoForward == Pos(row + 2 * direction, col)
      forward ==
        IF isValidPosition(oneForward) /\ board[oneForward.row][oneForward.col] = NoPiece
        THEN (IF \/ (piece.color = WHITE /\ oneForward.row = 0)
                 \/ (piece.color = BLACK /\ oneForward.row = 7)
              THEN addPawnPromotionMoves(position, oneForward, piece, NoPiece)
              ELSE << Mv(position, oneForward, "normal", piece, NoPiece,
                         "none", NoPos, NoPos, NoPos) >>)
             \o
             (IF /\ \/ (piece.color = WHITE /\ row = 6)
                    \/ (piece.color = BLACK /\ row = 1)
                 /\ isValidPosition(twoForward)
                 /\ board[twoForward.row][twoForward.col] = NoPiece
              THEN << Mv(position, twoForward, "normal", piece, NoPiece,
                         "none", NoPos, NoPos, NoPos) >>
              ELSE << >>)
        ELSE << >>
  IN forward
     \o pawnCaptureMoves(board, position, piece, Pos(row + direction, col - 1), enPassantTarget)
     \o pawnCaptureMoves(board, position, piece, Pos(row + direction, col + 1), enPassantTarget)

\* The body of the loops of getKnightMoves and getKingMoves: one step to newPos.
stepMove(board, position, piece, newPos) ==
  IF ~isValidPosition(newPos) THEN << >>
  ELSE LET targetPiece == board[newPos.row][newPos.col]
       IN IF targetPiece = NoPiece
          THEN << Mv(position, newPos, "normal", piece, NoPiece, "none", NoPos, NoPos, NoPos) >>
          ELSE IF targetPiece.color # piece.color
          THEN << Mv(position, newPos, "capture", piece, targetPiece,
                     "none", NoPos, NoPos, NoPos) >>
          ELSE << >>

RECURSIVE getKnightMovesFrom(_, _, _, _)
getKnightMovesFrom(board, position, piece, i) ==
  IF i > Len(KNIGHT_MOVES) THEN << >>
  ELSE stepMove(board, position, piece,
                Pos(position.row + KNIGHT_MOVES[i].row, position.col + KNIGHT_MOVES[i].col))
       \o getKnightMovesFrom(board, position, piece, i + 1)

getKnightMoves(board, position, piece) == getKnightMovesFrom(board, position, piece, 1)

\* The while loop of getLinearMoves along one direction, from (newRow, newCol) on.
RECURSIVE linearRay(_, _, _, _, _, _)
\* linearRay that stops in front of every piece, friend or foe.
linearRayToFirstPiece(board, position, piece, direction, newRow, newCol) ==
  IF ~isValidPosition(Pos(newRow, newCol)) THEN << >>
  ELSE IF board[newRow][newCol] = NoPiece
  THEN << Mv(position, Pos(newRow, newCol), "normal", piece, NoPiece,
             "none", NoPos, NoPos, NoPos) >>
       \o linearRay(board, position, piece, direction,
                    newRow + direction.row, newCol + direction.col)
  ELSE << >>

linearRay(board, position, piece, direction, newRow, newCol) ==
  IF ~isValidPosition(Pos(newRow, newCol)) THEN << >>
  ELSE LET targetPiece == board[newRow][newCol]
       IN IF targetPiece = NoPiece
          THEN << Mv(position, Pos(newRow, newCol), "normal", piece, NoPiece,
                     "none", NoPos, NoPos, NoPos) >>
               \o linearRay(board, position, piece, direction,
                            newRow + direction.row, newCol + direction.col)
          ELSE IF targetPiece.color # piece.color
          THEN << Mv(position, Pos(newRow, newCol), "capture", piece, targetPiece,
                     "none", NoPos, NoPos, NoPos) >>
          ELSE << >>

RECURSIVE getLinearMovesFrom(_, _, _, _, _)
getLinearMovesFrom(board, position, piece, directions, i) ==
  IF i > Len(directions) THEN << >>
  ELSE linearRay(board, position, piece, directions[i],
                 position.row + directions[i].row, position.col + directions[i].col)
       \o getLinearMovesFrom(board, position, piece, directions, i + 1)

getLinearMoves(board, position, piece, directions) ==
  getLinearMovesFrom(board, position, piece, directions, 1)

getBishopMoves(board, position, piece) ==
  getLinearMoves(board, position, piece,
    << DIRECTIONS.NORTHEAST, DIRECTIONS.SOUTHEAST, DIRECTIONS.SOUTHWEST, DIRECTIONS.NORTHWEST >>)

getRookMoves(board, position, piece) ==
  getLinearMoves(board, position, piece,
    << DIRECTIONS.NORTH, DIRECTIONS.EAST, DIRECTIONS.SOUTH, DIRECTIONS.WEST >>)

\* getQueenMoves along the orthogonal rays only.
getQueenMovesOrthogonal(board, position, piece) ==
  getLinearMoves(board, position, piece,
    << DIRECTIONS.NORTH, DIRECTIONS.EAST, DIRECTIONS.SOUTH, DIRECTIONS.WEST >>)

getQueenMoves(board, position, piece) ==
  getLinearMoves(board, position, piece,
    << DIRECTIONS.NORTH, DIRECTIONS.NORTHEAST, DIRECTIONS.EAST, DIRECTIONS.SOUTHEAST,
       DIRECTIONS.SOUTH, DIRECTIONS.SOUTHWEST, DIRECTIONS.WEST, DIRECTIONS.NORTHWEST >>)

RECURSIVE getKingStepsFrom(_, _, _, _, _)
getKingStepsFrom(board, position, piece, allDirections, i) ==
  IF i > Len(allDirections) THEN << >>
  ELSE stepMove(board, position, piece,
                Pos(position.row + allDirections[i].row, position.col + allDirections[i].col))
       \o getKingStepsFrom(board, position, piece, allDirections, i + 1)

\* getKingMoves that does not ask whether the rook has moved.
getKingMovesAnyRook(board, position, piece, castlingRights) ==
  LET allDirections ==
        << DIRECTIONS.NORTH, DIRECTIONS.NORTHEAST, DIRECTIONS.EAST, DIRECTIONS.SOUTHEAST,
           DIRECTIONS.SOUTH, DIRECTIONS.SOUTHWEST, DIRECTIONS.WEST, DIRECTIONS.NORTHWEST >>
      kingColor == piece.color
      kingRank == IF kingColor = WHITE THEN 7 ELSE 0
      kingSide ==
        IF /\ castlingRights[kingColor].kingSide
           /\ board[kingRank][5] = NoPiece
           /\ board[kingRank][6] = NoPiece
           /\ board[kingRank][7] # NoPiece
           /\ board[kingRank][7].type = "rook"
           /\ board[kingRank][7].color = kingColor
        THEN << Mv(position, Pos(kingRank, 6), "castle-kingside", piece, NoPiece, "none",
                   Pos(kingRank, 7), Pos(kingRank, 5), NoPos) >>
        ELSE << >>
      queenSide ==
        IF /\ castlingRights[kingColor].queenSide
           /\ board[kingRank][1] = NoPiece
           /\ board[kingRank][2] = NoPiece
           /\ board[kingRank][3] = NoPiece
           /\ board[kingRank][0] # NoPiece
           /\ board[kingRank][0].type = "rook"
           /\ board[kingRank][0].color = kingColor
        THEN << Mv(position, Pos(kingRank, 2), "castle-queenside", piece, NoPiece, "none",
                   Pos(kingRank, 0), Pos(kingRank, 3), NoPos) >>
        ELSE << >>
  IN getKingStepsFrom(board, position, piece, allDirections, 1)
     \o (IF ~piece.hasMoved THEN kingSide \o queenSide ELSE << >>)

getKingMoves(board, position, piece, castlingRights) ==
  LET allDirections ==
        << DIRECTIONS.NORTH, DIRECTIONS.NORTHEAST, DIRECTIONS.EAST, DIRECTIONS.SOUTHEAST,
           DIRECTIONS.SOUTH, DIRECTIONS.SOUTHWEST, DIRECTIONS.WEST, DIRECTIONS.NORTHWEST >>
      kingColor == piece.color
      kingRank == IF kingColor = WHITE THEN 7 ELSE 0
      kingSideRook == board[kingRank][7]
      queenSideRook == board[kingRank][0]
      kingSide ==
        IF /\ castlingRights[kingColor].kingSide
           /\ board[kingRank][5] = NoPiece
           /\ board[kingRank][6] = NoPiece
           /\ kingSideRook # NoPiece
           /\ kingSideRook.type = "rook"
           /\ kingSideRook.color = kingColor
           /\ ~kingSideRook.hasMoved
        THEN << Mv(position, Pos(kingRank, 6), "castle-kingside", piece, NoPiece, "none",
                   Pos(kingRank, 7), Pos(kingRank, 5), NoPos) >>
        ELSE << >>
      queenSide ==
        IF /\ castlingRights[kingColor].queenSide
           /\ board[kingRank][1] = NoPiece
           /\ board[kingRank][2] = NoPiece
           /\ board[kingRank][3] = NoPiece
           /\ queenSideRook # NoPiece
           /\ queenSideRook.type = "rook"
           /\ queenSideRook.color = kingColor
           /\ ~queenSideRook.hasMoved
        THEN << Mv(position, Pos(kingRank, 2), "castle-queenside", piece, NoPiece, "none",
                   Pos(kingRank, 0), Pos(kingRank, 3), NoPos) >>
        ELSE << >>
  IN getKingStepsFrom(board, position, piece, allDirections, 1)
     \o (IF ~piece.hasMoved THEN kingSide \o queenSide ELSE << >>)

getPossibleMoves(board, position, enPassantTarget, castlingRights) ==
  LET piece == board[position.row][position.col]
  IN CASE piece = NoPiece -> << >>
       [] piece.type = "pawn" -> getPawnMoves(board, position, piece, enPassantTarget)
       [] piece.type = "knight" -> getKnightMoves(board, position, piece)
       [] piece.type = "bishop" -> getBishopMoves(board, position, piece)
       [] piece.type = "rook" -> getRookMoves(board, position, piece)
       [] piece.type = "queen" -> getQueenMoves(board, position, piece)
       [] piece.type = "king" -> getKingMoves(board, position, piece, castlingRights)
       [] OTHER -> << >>

\* The squares of the board in the row-major order of the code's nested loops.
AllSquares == [k \in 1 .. (BOARD_SIZE * BOARD_SIZE) |->
                 Pos((k - 1) \div BOARD_SIZE, (k - 1) % BOARD_SIZE)]

\* isKingInCheck's first loop: the first king of kingColor in row-major order, or NoPos.
findKing(board, kingColor) ==
  LET kings == SelectSeq(AllSquares,
                 LAMBDA p : /\ board[p.row][p.col] # NoPiece
                            /\ board[p.row][p.col].type = "king"
                            /\ board[p.row][p.col].color = kingColor)
  IN IF Len(kings) = 0 THEN NoPos ELSE kings[1]

\* isKingInCheck comparing the destination's column only.
isKingInCheckOnFile(board, kingColor) ==
  LET kingPosition == findKing(board, kingColor)
      opponentColor == IF kingColor = WHITE THEN BLACK ELSE WHITE
  IN IF kingPosition = NoPos THEN FALSE
     ELSE \E row \in Rows, col \in Cols :
            /\ board[row][col] # NoPiece
            /\ board[row][col].color = opponentColor
            /\ SelectSeq(getPossibleMoves(board, Pos(row, col), NoPos, DefaultCastlingRights),
                         LAMBDA move : /\ move.to.col = kingPosition.col
                                       /\ move.to.col = kingPosition.col) # << >>

isKingInCheck(board, kingColor) ==
  LET kingPosition == findKing(board, kingColor)
      opponentColor == IF kingColor = WHITE THEN BLACK ELSE WHITE
  IN IF kingPosition = NoPos THEN FALSE
     ELSE \E row \in Rows, col \in Cols :
            /\ board[row][col] # NoPiece
            /\ board[row][col].color = opponentColor
            /\ SelectSeq(getPossibleMoves(board, Pos(row, col), NoPos, DefaultCastlingRights),
                         LAMBDA move : /\ move.to.row = kingPosition.row
                                       /\ move.to.col = kingPosition.col) # << >>

\* A clone that hands back the object it was given.
aliasClone(heap, ref) == [heap |-> heap, ref |-> ref]

\* Board objects live in a heap, a sequence of boards; a reference is an index.
\* deepClone (JSON.parse(JSON.stringify(obj))) allocates a copy, cell by cell.
deepClone(heap, ref) ==
  [heap |-> Append(heap, [r \in Rows |-> [c \in Cols |->
                            LET piece == heap[ref][r][c]
                            IN IF piece = NoPiece THEN NoPiece
                               ELSE Pc(piece.type, piece.color, piece.hasMoved)]]),
   ref |-> Len(heap) + 1]

\* applyMove that leaves the flag of the piece it moves as it was.
applyMoveKeepsFlag(heap, ref, move) ==
  LET cleared == [heap[ref] EXCEPT ![move.from.row][move.from.col] = NoPiece]
      placed ==
        IF move.type = "promotion" \/ move.type = "capture-and-promotion"
        THEN [cleared EXCEPT ![move.to.row][move.to.col] =
               Pc(IF move.promotionPieceType # "none" THEN move.promotionPieceType
                  ELSE "queen", move.piece.color, TRUE)]
        ELSE [cleared EXCEPT ![move.to.row][move.to.col] = move.piece]
      castled ==
        IF /\ move.type = "castle-kingside" \/ move.type = "castle-queenside"
           /\ move.castlingRookFrom # NoPos
           /\ move.castlingRookTo # NoPos
        THEN [placed EXCEPT
                ![move.castlingRookFrom.row][move.castlingRookFrom.col] = NoPiece,
                ![move.castlingRookTo.row][move.castlingRookTo.col] =
                  placed[move.castlingRookFrom.row][move.castlingRookFrom.col]]
        ELSE placed
  IN [heap EXCEPT ![ref] =
        IF move.type = "en-passant" /\ move.enPassantCapturePos # NoPos
        THEN [castled EXCEPT
                ![move.enPassantCapturePos.row][move.enPassantCapturePos.col] = NoPiece]
        ELSE castled]

\* applyMove writes into the board object it is given: the heap after the call.
applyMove(heap, ref, move) ==
  LET board == heap[ref]
      from == move.from
      to == move.to
      type == move.type
      piece == move.piece
      cleared == [board EXCEPT ![from.row][from.col] = NoPiece]
      placed ==
        IF type = "promotion" \/ type = "capture-and-promotion"
        THEN [cleared EXCEPT ![to.row][to.col] =
               Pc(IF move.promotionPieceType # "none" THEN move.promotionPieceType ELSE "queen",
                  piece.color, TRUE)]
        ELSE [cleared EXCEPT ![to.row][to.col] = [piece EXCEPT !.hasMoved = TRUE]]
      castled ==
        IF /\ type = "castle-kingside" \/ type = "castle-queenside"
           /\ move.castlingRookFrom # NoPos
           /\ move.castlingRookTo # NoPos
        THEN LET rook == placed[move.castlingRookFrom.row][move.castlingRookFrom.col]
                 lifted == [placed EXCEPT
                              ![move.castlingRookFrom.row][move.castlingRookFrom.col] = NoPiece]
             IN IF rook # NoPiece
                THEN [lifted EXCEPT ![move.castlingRookTo.row][move.castlingRookTo.col] =
                        [rook EXCEPT !.hasMoved = TRUE]]
                ELSE lifted
        ELSE placed
      taken ==
        IF type = "en-passant" /\ move.enPassantCapturePos # NoPos
        THEN [castled EXCEPT
                ![move.enPassantCapturePos.row][move.enPassantCapturePos.col] = NoPiece]
        ELSE castled
  IN [heap EXCEPT ![ref] = taken]

\* The loops below thread the heap through their iterations in order; they are
\* written as balanced folds over an index range so that evaluation stays shallow.
\* Bind(value, Body) is a const declaration: value is computed, then Body uses it.
Bind(value, Body(_)) == CASE DOMAIN value = DOMAIN value -> Body(value)

\* moves.filter(...) over moves[lo..hi]: ret is the kept moves, heap the heap after
\* the callbacks (newBoard is dropped at the end of each callback).
RECURSIVE filterLegalMovesRange(_, _, _, _, _, _)
filterLegalMovesRange(heap, ref, moves, currentPlayer, lo, hi) ==
  IF lo > hi THEN [heap |-> heap, ret |-> << >>]
  ELSE IF lo = hi
  THEN Bind(deepClone(heap, ref), LAMBDA newBoard :
         Bind(applyMove(newBoard.heap, newBoard.ref, moves[lo]), LAMBDA applied :
           [heap |-> SubSeq(applied, 1, Len(heap)),
            ret |-> IF ~isKingInCheck(applied[newBoard.ref], currentPlayer)
                    THEN << moves[lo] >> ELSE << >>]))
  ELSE Bind(filterLegalMovesRange(heap, ref, moves, currentPlayer, lo, (lo + hi) \div 2),
            LAMBDA left :
              Bind(filterLegalMovesRange(left.heap, ref, moves, currentPlayer,
                                         (lo + hi) \div 2 + 1, hi),
                   LAMBDA right : [heap |-> right.heap, ret |-> left.ret \o right.ret]))

\* A filter that tests the board it was given instead of newBoard.
filterOnGivenBoard(heap, ref, moves, currentPlayer) ==
  [heap |-> heap,
   ret |-> SelectSeq(moves, LAMBDA move : ~isKingInCheck(heap[ref], currentPlayer))]

filterLegalMoves(heap, ref, moves, currentPlayer) ==
  filterLegalMovesRange(heap, ref, moves, currentPlayer, 1, Len(moves))

\* The loop shared by isCheckmate and isStalemate over squares lo..hi of AllSquares:
\* ret is TRUE when no piece of playerColor there has a legal move; the loop returns
\* at the first piece that has one.
RECURSIVE noLegalMoveRange(_, _, _, _, _)
noLegalMoveRange(heap, ref, playerColor, lo, hi) ==
  IF lo > hi THEN [heap |-> heap, ret |-> TRUE]
  ELSE IF lo = hi
  THEN LET piece == heap[ref][AllSquares[lo].row][AllSquares[lo].col]
       IN IF piece # NoPiece /\ piece.color = playerColor
          THEN Bind(filterLegalMoves(heap, ref,
                      getPossibleMoves(heap[ref], AllSquares[lo], NoPos,
                                       DefaultCastlingRights),
                      playerColor),
                    LAMBDA legalMoves :
                      [heap |-> legalMoves.heap, ret |-> ~(Len(legalMoves.ret) > 0)])
          ELSE [heap |-> heap, ret |-> TRUE]
  ELSE Bind(noLegalMoveRange(heap, ref, playerColor, lo, (lo + hi) \div 2),
            LAMBDA left :
              IF ~left.ret THEN left
              ELSE noLegalMoveRange(left.heap, ref, playerColor, (lo + hi) \div 2 + 1, hi))

\* isCheckmate and isStalemate without their test of the king.
mateWithoutCheckTest(heap, ref, playerColor) ==
  noLegalMoveRange(heap, ref, playerColor, 1, Len(AllSquares))

isCheckmate(heap, ref, playerColor) ==
  IF ~isKingInCheck(heap[ref], playerColor) THEN [heap |-> heap, ret |-> FALSE]
  ELSE noLegalMoveRange(heap, ref, playerColor, 1, Len(AllSquares))

staleWithoutCheckTest(heap, ref, playerColor) ==
  noLegalMoveRange(heap, ref, playerColor, 1, Len(AllSquares))

isStalemate(heap, ref, playerColor) ==
  IF isKingInCheck(heap[ref], playerColor) THEN [heap |-> heap, ret |-> FALSE]
  ELSE noLegalMoveRange(heap, ref, playerColor, 1, Len(AllSquares))

getEnPassantTarget(move) ==
  IF /\ move.piece.type = "pawn"
     /\ move.type = "normal"
     /\ (IF move.to.row >= move.from.row THEN move.to.row - move.from.row
         ELSE move.from.row - move.to.row) = 2
  THEN Pos(move.to.row + (IF move.piece.color = WHITE THEN 1 ELSE -1), move.to.col)
  ELSE NoPos

\* ---------------------------------------------------------------- aiUtils.ts

\* The tables are indexed [row][col] from 0 in the code, from 1 here.
PIECE_SQUARE_TABLES ==
  [pawn |->
     << <<0, 0, 0, 0, 0, 0, 0, 0>>,
        <<50, 50, 50, 50, 50, 50, 50, 50>>,
        <<10, 10, 20, 30, 30, 20, 10, 10>>,
        <<5, 5, 10, 25, 25, 10, 5, 5>>,
        <<0, 0, 0, 20, 20, 0, 0, 0>>,
        <<5, -5, -10, 0, 0, -10, -5, 5>>,
        <<5, 10, 10, -20, -20, 10, 10, 5>>,
        <<0, 0, 0, 0, 0, 0, 0, 0>> >>,
   knight |->
     << <<-50, -40, -30, -30, -30, -30, -40, -50>>,
        <<-40, -20, 0, 0, 0, 0, -20, -40>>,
        <<-30, 0, 10, 15, 15, 10, 0, -30>>,
        <<-30, 5, 15, 20, 20, 15, 5, -30>>,
        <<-30, 0, 15, 20, 20, 15, 0, -30>>,
        <<-30, 5, 10, 15, 15, 10, 5, -30>>,
        <<-40, -20, 0, 5, 5, 0, -20, -40>>,
        <<-50, -40, -30, -30, -30, -30, -40, -50>> >>,
   bishop |->
     << <<-20, -10, -10, -10, -10, -10, -10, -20>>,
        <<-10, 0, 0, 0, 0, 0, 0, -10>>,
        <<-10, 0, 10, 10, 10, 10, 0, -10>>,
        <<-10, 5, 5, 10, 10, 5, 5, -10>>,
        <<-10, 0, 5, 10, 10, 5, 0, -10>>,
        <<-10, 5, 5, 5, 5, 5, 5, -10>>,
        <<-10, 0, 5, 0, 0, 5, 0, -10>>,
        <<-20, -10, -10, -10, -10, -10, -10, -20>> >>,
   rook |->
     << <<0, 0, 0, 0, 0, 0, 0, 0>>,
        <<5, 10, 10, 10, 10, 10, 10, 5>>,
        <<-5, 0, 0, 0, 0, 0, 0, -5>>,
        <<-5, 0, 0, 0, 0, 0, 0, -5>>,
        <<-5, 0, 0, 0, 0, 0, 0, -5>>,
        <<-5, 0, 0, 0, 0, 0, 0, -5>>,
        <<-5, 0, 0, 0, 0, 0, 0, -5>>,
        <<0, 0, 0, 5, 5, 0, 0, 0>> >>,
   queen |->
     << <<-20, -10, -10, -5, -5, -10, -10, -20>>,
        <<-10, 0, 0, 0, 0, 0, 0, -10>>,
        <<-10, 0, 5, 5, 5, 5, 0, -10>>,
        <<-5, 0, 5, 5, 5, 5, 0, -5>>,
        <<0, 0, 5, 5, 5, 5, 0, -5>>,
        <<-10, 5, 5, 5, 5, 5, 0, -10>>,
        <<-10, 0, 5, 0, 0, 0, 0, -10>>,
        <<-20, -10, -10, -5, -5, -10, -10, -20>> >>,
   king |->
     << <<-30, -40, -40, -50, -50, -40, -40, -30>>,
        <<-30, -40, -40, -50, -50, -40, -40, -30>>,
        <<-30, -40, -40, -50, -50, -40, -40, -30>>,
        <<-30, -40, -40, -50, -50, -40, -40, -30>>,
        <<-20, -30, -30, -40, -40, -30, -30, -20>>,
        <<-10, -20, -20, -20, -20, -20, -20, -10>>,
        <<20, 20, 0, 0, 0, 0, 20, 20>>,
        <<20, 30, 10, 0, 0, 10, 30, 20>> >>,
   kingEndgame |->
     << <<-50, -40, -30, -20, -20, -30, -40, -50>>,
        <<-30, -20, -10, 0, 0, -10, -20, -30>>,
        <<-30, -10, 20, 30, 30, 20, -10, -30>>,
        <<-30, -10, 30, 40, 40, 30, -10, -30>>,
        <<-30, -10, 30, 40, 40, 30, -10, -30>>,
        <<-30, -10, 20, 30, 30, 20, -10, -30>>,
        <<-30, -30, 0, 0, 0, 0, -30, -30>>,
        <<-50, -30, -30, -30, -30, -30, -30, -50>> >>]

\* JavaScript's Infinity: above every score evaluateBoard and minimax can return.
Infinity == 10000000

Max(a, b) == IF a >= b THEN a ELSE b

Min(a, b) == IF a <= b THEN a ELSE b

RECURSIVE evaluateMaterialRange(_, _, _)
evaluateMaterialRange(board, lo, hi) ==
  IF lo > hi THEN 0
  ELSE IF lo = hi
  THEN LET piece == board[AllSquares[lo].row][AllSquares[lo].col]
       IN IF piece # NoPiece
          THEN IF piece.color = BLACK THEN PIECE_VALUES[piece.type]
               ELSE 0 - PIECE_VALUES[piece.type]
          ELSE 0
  ELSE evaluateMaterialRange(board, lo, (lo + hi) \div 2)
       + evaluateMaterialRange(board, (lo + hi) \div 2 + 1, hi)

evaluateMaterial(board) == evaluateMaterialRange(board, 1, Len(AllSquares))

isEndgamePhase(board) ==
  LET count(color, queensOnly) ==
        Cardinality({k \in 1 .. Len(AllSquares) :
          LET piece == board[AllSquares[k].row][AllSquares[k].col]
          IN /\ piece # NoPiece
             /\ (IF color = WHITE THEN piece.color = WHITE ELSE piece.color # WHITE)
             /\ (queensOnly => piece.type = "queen")})
      whiteQueens == count(WHITE, TRUE)
      blackQueens == count(BLACK, TRUE)
      whitePieceCount == count(WHITE, FALSE)
      blackPieceCount == count(BLACK, FALSE)
  IN \/ (whiteQueens = 0 /\ blackQueens = 0)
     \/ (whitePieceCount <= 4 /\ blackPieceCount <= 4)

\* The value evaluatePositions adds (black) or subtracts (white) for the piece at
\* (row, col): posValue is assigned from the table at the cell, then reassigned from
\* the piece's own table at the adjusted cell, and the last assignment is the one used.
\* positionValue read at the piece's own cell for either color.
positionValueAtCell(board, row, col) ==
  PIECE_SQUARE_TABLES[board[row][col].type][row + 1][col + 1]

positionValue(board, row, col) ==
  LET piece == board[row][col]
      firstValue ==
        IF piece.type = "king"
        THEN IF isEndgamePhase(board)
             THEN PIECE_SQUARE_TABLES.kingEndgame[row + 1][col + 1]
             ELSE PIECE_SQUARE_TABLES[piece.type][row + 1][col + 1]
        ELSE PIECE_SQUARE_TABLES[piece.type][row + 1][col + 1]
      adjustedRow == IF piece.color = BLACK THEN row ELSE 7 - row
      adjustedCol == IF piece.color = BLACK THEN col ELSE 7 - col
      posValue == PIECE_SQUARE_TABLES[piece.type][adjustedRow + 1][adjustedCol + 1]
  IN posValue

RECURSIVE evaluatePositionsRange(_, _, _)
evaluatePositionsRange(board, lo, hi) ==
  IF lo > hi THEN 0
  ELSE IF lo = hi
  THEN LET piece == board[AllSquares[lo].row][AllSquares[lo].col]
       IN IF piece # NoPiece
          THEN IF piece.color = BLACK
               THEN positionValue(board, AllSquares[lo].row, AllSquares[lo].col)
               ELSE 0 - positionValue(board, AllSquares[lo].row, AllSquares[lo].col)
          ELSE 0
  ELSE evaluatePositionsRange(board, lo, (lo + hi) \div 2)
       + evaluatePositionsRange(board, (lo + hi) \div 2 + 1, hi)

evaluatePositions(board) == evaluatePositionsRange(board, 1, Len(AllSquares))

evaluatePawnShield(board, kingPos, kingColor) ==
  LET pawnDirection == IF kingColor = WHITE THEN -1 ELSE 1
      positions == { Pos(kingPos.row + pawnDirection, kingPos.col - 1),
                     Pos(kingPos.row + pawnDirection, kingPos.col),
                     Pos(kingPos.row + pawnDirection, kingPos.col + 1) }
  IN 10 * Cardinality({pos \in positions :
            /\ pos.row >= 0 /\ pos.row < BOARD_SIZE /\ pos.col >= 0 /\ pos.col < BOARD_SIZE
            /\ board[pos.row][pos.col] # NoPiece
            /\ board[pos.row][pos.col].type = "pawn"
            /\ board[pos.row][pos.col].color = kingColor})

\* The last king of a color found by evaluateKingSafety's loop (it does not break).
lastKing(board, white) ==
  LET kings == SelectSeq(AllSquares,
                 LAMBDA p : /\ board[p.row][p.col] # NoPiece
                            /\ board[p.row][p.col].type = "king"
                            /\ (board[p.row][p.col].color = WHITE) = white)
  IN IF Len(kings) = 0 THEN NoPos ELSE kings[Len(kings)]

evaluateKingSafety(board) ==
  LET whiteKingPos == lastKing(board, TRUE)
      blackKingPos == lastKing(board, FALSE)
  IN IF whiteKingPos = NoPos \/ blackKingPos = NoPos THEN 0
     ELSE (IF isKingInCheck(board, WHITE) THEN 50 ELSE 0)
          - (IF isKingInCheck(board, BLACK) THEN 50 ELSE 0)
          + evaluatePawnShield(board, blackKingPos, BLACK)
          - evaluatePawnShield(board, whiteKingPos, WHITE)

\* evaluateMobility's loop over squares lo..hi: the legal move counts of both colors.
RECURSIVE evaluateMobilityRange(_, _, _, _)
evaluateMobilityRange(heap, ref, lo, hi) ==
  IF lo > hi THEN [heap |-> heap, whiteMoveCount |-> 0, blackMoveCount |-> 0]
  ELSE IF lo = hi
  THEN LET piece == heap[ref][AllSquares[lo].row][AllSquares[lo].col]
       IN IF piece # NoPiece
          THEN Bind(filterLegalMoves(heap, ref,
                      getPossibleMoves(heap[ref], AllSquares[lo], NoPos,
                                       DefaultCastlingRights),
                      piece.color),
                    LAMBDA legalMoves :
                      [heap |-> legalMoves.heap,
                       whiteMoveCount |->
                         IF piece.color = WHITE THEN Len(legalMoves.ret) ELSE 0,
                       blackMoveCount |->
                         IF piece.color = WHITE THEN 0 ELSE Len(legalMoves.ret)])
          ELSE [heap |-> heap, whiteMoveCount |-> 0, blackMoveCount |-> 0]
  ELSE Bind(evaluateMobilityRange(heap, ref, lo, (lo + hi) \div 2),
            LAMBDA left :
              Bind(evaluateMobilityRange(left.heap, ref, (lo + hi) \div 2 + 1, hi),
                   LAMBDA right :
                     [heap |-> right.heap,
                      whiteMoveCount |-> left.whiteMoveCount + right.whiteMoveCount,
                      blackMoveCount |-> left.blackMoveCount + right.blackMoveCount]))

evaluateMobility(heap, ref) ==
  Bind(evaluateMobilityRange(heap, ref, 1, Len(AllSquares)),
       LAMBDA counts :
         [heap |-> counts.heap,
          ret |-> counts.blackMoveCount * 2 - counts.whiteMoveCount * 2])

\* evaluateBoard without the tests for checkmate and stalemate.
evaluateBoardSum(heap, ref) ==
  Bind(evaluateMobility(heap, ref), LAMBDA mobility :
    [heap |-> mobility.heap,
     ret |-> evaluateMaterial(heap[ref]) + evaluatePositions(heap[ref])
             + evaluateKingSafety(heap[ref]) + mobility.ret])

evaluateBoard(heap, ref) ==
  Bind(isCheckmate(heap, ref, WHITE), LAMBDA whiteMated :
    IF whiteMated.ret THEN [heap |-> whiteMated.heap, ret |-> 10000]
    ELSE Bind(isCheckmate(whiteMated.heap, ref, BLACK), LAMBDA blackMated :
    IF blackMated.ret THEN [heap |-> blackMated.heap, ret |-> -10000]
    ELSE Bind(isStalemate(blackMated.heap, ref, WHITE), LAMBDA whiteStale :
    IF whiteStale.ret THEN [heap |-> whiteStale.heap, ret |-> 0]
    ELSE Bind(isStalemate(whiteStale.heap, ref, BLACK), LAMBDA blackStale :
    IF blackStale.ret THEN [heap |-> blackStale.heap, ret |-> 0]
    ELSE Bind(evaluateMobility(blackStale.heap, ref), LAMBDA mobilityScore :
      [heap |-> mobilityScore.heap,
       ret |-> evaluateMaterial(heap[ref]) + evaluatePositions(heap[ref])
               + evaluateKingSafety(blackStale.heap[ref]) + mobilityScore.ret])))))

\* "Get all legal moves for the player", the loop of findBestMove and minimax over
\* squares lo..hi.
RECURSIVE allLegalMovesRange(_, _, _, _, _, _, _)
allLegalMovesRange(heap, ref, playerColor, enPassantTarget, castlingRights, lo, hi) ==
  IF lo > hi THEN [heap |-> heap, ret |-> << >>]
  ELSE IF lo = hi
  THEN LET piece == heap[ref][AllSquares[lo].row][AllSquares[lo].col]
       IN IF piece # NoPiece /\ piece.color = playerColor
          THEN filterLegalMoves(heap, ref,
                 getPossibleMoves(heap[ref], AllSquares[lo], enPassantTarget, castlingRights),
                 playerColor)
          ELSE [heap |-> heap, ret |-> << >>]
  ELSE Bind(allLegalMovesRange(heap, ref, playerColor, enPassantTarget, castlingRights,
                               lo, (lo + hi) \div 2),
            LAMBDA left :
              Bind(allLegalMovesRange(left.heap, ref, playerColor, enPassantTarget,
                                      castlingRights, (lo + hi) \div 2 + 1, hi),
                   LAMBDA right : [heap |-> right.heap, ret |-> left.ret \o right.ret]))

allLegalMoves(heap, ref, playerColor, enPassantTarget, castlingRights) ==
  allLegalMovesRange(heap, ref, playerColor, enPassantTarget, castlingRights,
                     1, Len(AllSquares))

\* minimax's base case test: depth === 0 || isCheckmate(WHITE) || isCheckmate(BLACK)
\* || isStalemate(WHITE) || isStalemate(BLACK), left to right.
isTerminal(heap, ref, depth) ==
  IF depth = 0 THEN [heap |-> heap, ret |-> TRUE]
  ELSE Bind(isCheckmate(heap, ref, WHITE), LAMBDA whiteMated :
    IF whiteMated.ret THEN whiteMated
    ELSE Bind(isCheckmate(whiteMated.heap, ref, BLACK), LAMBDA blackMated :
    IF blackMated.ret THEN blackMated
    ELSE Bind(isStalemate(blackMated.heap, ref, WHITE), LAMBDA whiteStale :
    IF whiteStale.ret THEN whiteStale
    ELSE isStalemate(whiteStale.heap, ref, BLACK))))

RECURSIVE minimax(_, _, _, _, _, _, _, _)
RECURSIVE minimaxLoop(_, _, _, _, _, _, _, _, _, _)

\* The for loop of one branch of minimax over allMoves[lo..hi].  st holds the heap,
\* alpha, beta, the running maxEval or minEval (best) and whether the loop has broken.
minimaxLoop(st, ref, depth, isMaximizingPlayer, enPassantTarget, castlingRights, allMoves, lo, hi, size) ==
  IF lo > hi THEN st
  ELSE IF lo = hi
  THEN Bind(deepClone(st.heap, ref), LAMBDA newBoard :
         Bind(minimax(applyMove(newBoard.heap, newBoard.ref, allMoves[lo]), newBoard.ref,
                      depth - 1, st.alpha, st.beta, ~isMaximizingPlayer,
                      enPassantTarget, castlingRights),
              LAMBDA child :
                LET alpha == IF isMaximizingPlayer THEN Max(st.alpha, child.ret)
                             ELSE st.alpha
                    beta == IF isMaximizingPlayer THEN st.beta
                            ELSE Min(st.beta, child.ret)
                IN [heap |-> SubSeq(child.heap, 1, size),
                    alpha |-> alpha,
                    beta |-> beta,
                    best |-> IF isMaximizingPlayer THEN Max(st.best, child.ret)
                             ELSE Min(st.best, child.ret),
                    broken |-> beta <= alpha]))
  ELSE Bind(minimaxLoop(st, ref, depth, isMaximizingPlayer, enPassantTarget,
                        castlingRights, allMoves, lo, (lo + hi) \div 2, size),
            LAMBDA left :
              IF left.broken THEN left
              ELSE minimaxLoop(left, ref, depth, isMaximizingPlayer, enPassantTarget,
                               castlingRights, allMoves, (lo + hi) \div 2 + 1, hi, size))

minimax(heap, ref, depth, alpha, beta, isMaximizingPlayer, enPassantTarget, castlingRights) ==
  Bind(isTerminal(heap, ref, depth), LAMBDA terminal :
    IF terminal.ret THEN evaluateBoard(terminal.heap, ref)
    ELSE Bind(allLegalMoves(terminal.heap, ref,
                            IF isMaximizingPlayer THEN BLACK ELSE WHITE,
                            enPassantTarget, castlingRights),
              LAMBDA allMoves :
                IF Len(allMoves.ret) = 0 THEN evaluateBoard(allMoves.heap, ref)
                ELSE Bind(minimaxLoop(
                            [heap |-> allMoves.heap, alpha |-> alpha, beta |-> beta,
                             best |-> IF isMaximizingPlayer THEN 0 - Infinity ELSE Infinity,
                             broken |-> FALSE],
                            ref, depth, isMaximizingPlayer, enPassantTarget,
                            castlingRights, allMoves.ret, 1, Len(allMoves.ret), Len(heap)),
                          LAMBDA loop : [heap |-> loop.heap, ret |-> loop.best])))

\* The for loop of findBestMove over allMoves[lo..hi]; st holds the heap, bestMove
\* and bestScore.
RECURSIVE findBestMoveLoop(_, _, _, _, _, _, _, _, _)
\* findBestMoveLoop that keeps the first move it scores.
findBestMoveLoopFirst(st, ref, depth, isBlack, enPassantTarget, castlingRights, allMoves, lo, hi) ==
  [heap |-> st.heap, bestMove |-> allMoves[lo], bestScore |-> st.bestScore]

findBestMoveLoop(st, ref, depth, isBlack, enPassantTarget, castlingRights, allMoves, lo, hi) ==
  IF lo > hi THEN st
  ELSE IF lo = hi
  THEN Bind(deepClone(st.heap, ref), LAMBDA newBoard :
         Bind(minimax(applyMove(newBoard.heap, newBoard.ref, allMoves[lo]), newBoard.ref,
                      depth - 1, 0 - Infinity, Infinity, ~isBlack,
                      enPassantTarget, castlingRights),
              LAMBDA score :
                LET better == IF isBlack THEN score.ret > st.bestScore
                              ELSE score.ret < st.bestScore
                IN [heap |-> SubSeq(score.heap, 1, Len(st.heap)),
                    bestMove |-> IF better THEN allMoves[lo] ELSE st.bestMove,
                    bestScore |-> IF better THEN score.ret ELSE st.bestScore]))
  ELSE Bind(findBestMoveLoop(st, ref, depth, isBlack, enPassantTarget, castlingRights,
                             allMoves, lo, (lo + hi) \div 2),
            LAMBDA left :
              findBestMoveLoop(left, ref, depth, isBlack, enPassantTarget,
                               castlingRights, allMoves, (lo + hi) \div 2 + 1, hi))

\* findBestMove with bestScore starting from 0.
findBestMoveFromZero(heap, ref, depth, isBlack, enPassantTarget, castlingRights) ==
  Bind(allLegalMoves(heap, ref, IF isBlack THEN BLACK ELSE WHITE,
                     enPassantTarget, castlingRights),
       LAMBDA allMoves :
         IF Len(allMoves.ret) = 0 THEN [heap |-> allMoves.heap, ret |-> NoMove]
         ELSE Bind(findBestMoveLoop(
                     [heap |-> allMoves.heap, bestMove |-> NoMove, bestScore |-> 0],
                     ref, depth, isBlack, enPassantTarget, castlingRights,
                     allMoves.ret, 1, Len(allMoves.ret)),
                   LAMBDA loop : [heap |-> loop.heap, ret |-> loop.bestMove]))

findBestMove(heap, ref, depth, isBlack, enPassantTarget, castlingRights) ==
  Bind(allLegalMoves(heap, ref, IF isBlack THEN BLACK ELSE WHITE,
                     enPassantTarget, castlingRights),
       LAMBDA allMoves :
         IF Len(allMoves.ret) = 0 THEN [heap |-> allMoves.heap, ret |-> NoMove]
         ELSE Bind(findBestMoveLoop(
                     [heap |-> allMoves.heap, bestMove |-> NoMove,
                      bestScore |-> IF isBlack THEN 0 - Infinity ELSE Infinity],
                     ref, depth, isBlack, enPassantTarget, castlingRights,
                     allMoves.ret, 1, Len(allMoves.ret)),
                   LAMBDA loop : [heap |-> loop.heap, ret |-> loop.bestMove]))

\* ------------------------------------------------------------- ChessGame.tsx

\* The state of the ChessGame component, the pending timer of the computer's move
\* (aiTimer) and the render whose closure that timer runs in (aiClosure).
VARIABLES board, currentPlayer, gameState, selectedPosition, validMoves, gameMode,
          moveHistory, capturedPieces, enPassantTarget, castlingRights, isAIThinking,
          aiTimer, aiClosure

\* A caller of the exported functions: the board object it holds and the en-passant
\* target and castling rights it passes (fnBoard, fnEnPassantTarget,
\* fnCastlingRights), how many moves it has applied to that board (movesApplied), the
\* function it has called last with its arguments (called, args), what the function
\* returned (result) and the board objects after the call (heapAfter; the caller's
\* board is the first).
VARIABLES fnBoard, fnEnPassantTarget, fnCastlingRights, movesApplied, called, args, result,
          heapAfter

\* The call stack of a search run step by step: the frame of findBestMove, then one
\* frame for each call of minimax that has not returned.
VARIABLES frames

gameVars == << board, currentPlayer, gameState, selectedPosition, validMoves, gameMode,
               moveHistory, capturedPieces, enPassantTarget, castlingRights, isAIThinking,
               aiTimer, aiClosure >>

fnVars == << fnBoard, fnEnPassantTarget, fnCastlingRights, movesApplied, called, args, result,
             heapAfter >>

searchVars == << frames >>

vars == << gameVars, fnVars, searchVars >>

\* The longest game (in plies) the players of the model play by clicking, in
\* two-player mode and against the computer.
MaxPly == 6

MaxPlyAI == 3

\* The squares the user of the model clicks: a2, a4, a1, a3, h3, d7, d5 and c8.
ClickSquares ==
  { Pos(6, 0), Pos(4, 0), Pos(7, 0), Pos(5, 0), Pos(5, 7), Pos(1, 3), Pos(3, 3), Pos(0, 2) }

\* The game modes the user of the model selects.
GameModes == { "two-player", "computer-easy" }

\* The state a handler created by the current render reads.
Render ==
  [board |-> board, currentPlayer |-> currentPlayer, gameState |-> gameState,
   gameMode |-> gameMode, moveHistory |-> moveHistory, capturedPieces |-> capturedPieces,
   enPassantTarget |-> enPassantTarget, castlingRights |-> castlingRights]

NoClosure ==
  [board |-> EmptyBoard, currentPlayer |-> WHITE, gameState |-> "active",
   gameMode |-> "two-player", moveHistory |-> << >>,
   capturedPieces |-> [white |-> << >>, black |-> << >>],
   enPassantTarget |-> NoPos, castlingRights |-> DefaultCastlingRights]

calculateGameState(newBoard, nextPlayer) ==
  IF isKingInCheck(newBoard, nextPlayer)
  THEN IF isCheckmate(<< newBoard >>, 1, nextPlayer).ret THEN "checkmate" ELSE "check"
  ELSE IF isStalemate(<< newBoard >>, 1, nextPlayer).ret THEN "stalemate"
  ELSE "active"

\* updateCastlingRights applied to the initial rights instead of the current ones.
updateFromInitialRights(move, newCastlingRights) ==
  LET piece == move.piece
      initial == DefaultCastlingRights
      opponentColor == IF piece.color = WHITE THEN BLACK ELSE WHITE
      afterKing ==
        IF piece.type = "king"
        THEN [initial EXCEPT ![piece.color] = [kingSide |-> FALSE, queenSide |-> FALSE]]
        ELSE initial
  IN IF piece.type = "rook" /\ move.from.col = 0
     THEN [afterKing EXCEPT ![piece.color].queenSide = FALSE]
     ELSE IF piece.type = "rook" /\ move.from.col = 7
     THEN [afterKing EXCEPT ![piece.color].kingSide = FALSE]
     ELSE afterKing

updateCastlingRights(move, newCastlingRights) ==
  LET piece == move.piece
      from == move.from
      opponentColor == IF piece.color = WHITE THEN BLACK ELSE WHITE
      afterKing ==
        IF piece.type = "king"
        THEN [newCastlingRights EXCEPT ![piece.color] =
                [kingSide |-> FALSE, queenSide |-> FALSE]]
        ELSE newCastlingRights
      afterRook ==
        IF piece.type = "rook"
        THEN IF from.col = 7 THEN [afterKing EXCEPT ![piece.color].kingSide = FALSE]
             ELSE IF from.col = 0 THEN [afterKing EXCEPT ![piece.color].queenSide = FALSE]
             ELSE afterKing
        ELSE afterKing
  IN IF move.capturedPiece # NoPiece /\ move.capturedPiece.type = "rook"
     THEN IF move.to.col = 7 THEN [afterRook EXCEPT ![opponentColor].kingSide = FALSE]
          ELSE IF move.to.col = 0 THEN [afterRook EXCEPT ![opponentColor].queenSide = FALSE]
          ELSE afterRook
     ELSE afterRook

\* makeMove that leaves the turn with the player who has moved.
makeMoveSamePlayer(g, move) ==
  LET newCastlingRights == updateCastlingRights(move, g.castlingRights)
      newCapturedPieces ==
        IF move.capturedPiece # NoPiece
        THEN [g.capturedPieces EXCEPT ![move.piece.color] = Append(@, move.capturedPiece)]
        ELSE g.capturedPieces
      newEnPassantTarget ==
        IF /\ move.piece.type = "pawn"
           /\ (move.from.row - move.to.row = 2 \/ move.to.row - move.from.row = 2)
        THEN Pos(move.to.row + (IF move.piece.color = WHITE THEN 1 ELSE -1), move.to.col)
        ELSE NoPos
      nextPlayer == g.currentPlayer
  IN Bind(deepClone(<< g.board >>, 1), LAMBDA newBoard :
       Bind(applyMove(newBoard.heap, newBoard.ref, move), LAMBDA applied :
         [board |-> applied[newBoard.ref],
          capturedPieces |-> newCapturedPieces,
          castlingRights |-> newCastlingRights,
          enPassantTarget |-> newEnPassantTarget,
          moveHistory |-> Append(g.moveHistory, move),
          currentPlayer |-> nextPlayer,
          gameState |-> calculateGameState(applied[newBoard.ref], nextPlayer)]))

\* makeMove called from a handler of render g: the state it sets.
makeMove(g, move) ==
  LET newCastlingRights == updateCastlingRights(move, g.castlingRights)
      newCapturedPieces ==
        IF move.capturedPiece # NoPiece
        THEN [g.capturedPieces EXCEPT ![move.piece.color] = Append(@, move.capturedPiece)]
        ELSE g.capturedPieces
      newEnPassantTarget ==
        IF /\ move.piece.type = "pawn"
           /\ (move.from.row - move.to.row = 2 \/ move.to.row - move.from.row = 2)
        THEN Pos(move.to.row + (IF move.piece.color = WHITE THEN 1 ELSE -1), move.to.col)
        ELSE NoPos
      nextPlayer == IF g.currentPlayer = WHITE THEN BLACK ELSE WHITE
  IN Bind(deepClone(<< g.board >>, 1), LAMBDA newBoard :
       Bind(applyMove(newBoard.heap, newBoard.ref, move), LAMBDA applied :
         [board |-> applied[newBoard.ref],
          capturedPieces |-> newCapturedPieces,
          castlingRights |-> newCastlingRights,
          enPassantTarget |-> newEnPassantTarget,
          moveHistory |-> Append(g.moveHistory, move),
          currentPlayer |-> nextPlayer,
          gameState |-> calculateGameState(applied[newBoard.ref], nextPlayer)]))

\* updateGameState sets gameState to the same classification.
updateGameState(newBoard, nextPlayer) == calculateGameState(newBoard, nextPlayer)

\* selectPiece: the legal moves of the piece at position.
selectPiece(g, position) ==
  IF g.board[position.row][position.col] = NoPiece THEN << >>
  ELSE filterLegalMoves(<< g.board >>, 1,
         getPossibleMoves(g.board, position, g.enPassantTarget, g.castlingRights),
         g.currentPlayer).ret

\* The effect without its test that the game is active.
AIEffectAnyState ==
  IF << currentPlayer', gameState', gameMode' >> # << currentPlayer, gameState, gameMode >>
  THEN IF currentPlayer' = BLACK /\ gameMode' # "two-player"
       THEN /\ aiTimer' = "t500"
            /\ aiClosure' = [board |-> board', currentPlayer |-> currentPlayer',
                             gameState |-> gameState', gameMode |-> gameMode',
                             moveHistory |-> moveHistory',
                             capturedPieces |-> capturedPieces',
                             enPassantTarget |-> enPassantTarget',
                             castlingRights |-> castlingRights']
       ELSE /\ aiTimer' = (IF aiTimer = "t500" THEN "none" ELSE aiTimer)
            /\ aiClosure' = (IF aiTimer = "t500" THEN NoClosure ELSE aiClosure)
  ELSE UNCHANGED << aiTimer, aiClosure >>

\* The useEffect on [currentPlayer, gameState, gameMode], run after a handler has set
\* the state: when a dependency changed, the cleanup clears the 500 ms timer and the
\* effect starts a new one if it is the computer's turn.
AIEffect ==
  IF << currentPlayer', gameState', gameMode' >> # << currentPlayer, gameState, gameMode >>
  THEN IF gameState' = "active" /\ currentPlayer' = BLACK /\ gameMode' # "two-player"
       THEN /\ aiTimer' = "t500"
            /\ aiClosure' = [board |-> board', currentPlayer |-> currentPlayer',
                             gameState |-> gameState', gameMode |-> gameMode',
                             moveHistory |-> moveHistory',
                             capturedPieces |-> capturedPieces',
                             enPassantTarget |-> enPassantTarget',
                             castlingRights |-> castlingRights']
       ELSE /\ aiTimer' = (IF aiTimer = "t500" THEN "none" ELSE aiTimer)
            /\ aiClosure' = (IF aiTimer = "t500" THEN NoClosure ELSE aiClosure)
  ELSE UNCHANGED << aiTimer, aiClosure >>

\* The state makeMove sets, then the deselection of handleSquareClick.
SetMoved(m) ==
  /\ board' = m.board
  /\ capturedPieces' = m.capturedPieces
  /\ castlingRights' = m.castlingRights
  /\ enPassantTarget' = m.enPassantTarget
  /\ moveHistory' = m.moveHistory
  /\ currentPlayer' = m.currentPlayer
  /\ gameState' = m.gameState

FirstTo(moves, position) ==
  LET hits == SelectSeq(moves, LAMBDA move : move.to.row = position.row
                                            /\ move.to.col = position.col)
  IN IF Len(hits) = 0 THEN NoMove ELSE hits[1]

\* A click on from and then on to in game g, as handleSquareClick, selectPiece and
\* makeMove treat them when nothing is selected before.
clickedMove(g, from, to) ==
  IF g.gameState # "active" THEN g
  ELSE IF \/ g.board[from.row][from.col] = NoPiece
          \/ g.board[from.row][from.col].color # g.currentPlayer
  THEN g
  ELSE Bind(selectPiece(g, from), LAMBDA moves :
         IF FirstTo(moves, to) = NoMove THEN g ELSE makeMove(g, FirstTo(moves, to)))

RECURSIVE clickedOut(_, _, _)
clickedOut(g, clicks, i) ==
  IF i > Len(clicks) THEN g
  ELSE clickedOut(clickedMove(g, clicks[i][1], clicks[i][2]), clicks, i + 1)

\* The opening of a two-player game the user of the model has played out: 1. h4 Na6
\* 2. h5 Nb8 3. g3 Na6 4. f3 Nb8 5. Kf2 Na6 6. Kg2 Nb8 7. Kh3 f6 8. Kh4 d6 9. a3.
OpeningClicks ==
  << << Pos(6, 7), Pos(4, 7) >>, << Pos(0, 1), Pos(2, 0) >>,
     << Pos(4, 7), Pos(3, 7) >>, << Pos(2, 0), Pos(0, 1) >>,
     << Pos(6, 6), Pos(5, 6) >>, << Pos(0, 1), Pos(2, 0) >>,
     << Pos(6, 5), Pos(5, 5) >>, << Pos(2, 0), Pos(0, 1) >>,
     << Pos(7, 4), Pos(6, 5) >>, << Pos(0, 1), Pos(2, 0) >>,
     << Pos(6, 5), Pos(6, 6) >>, << Pos(2, 0), Pos(0, 1) >>,
     << Pos(6, 6), Pos(5, 7) >>, << Pos(1, 5), Pos(2, 5) >>,
     << Pos(5, 7), Pos(4, 7) >>, << Pos(1, 3), Pos(2, 3) >>,
     << Pos(6, 0), Pos(5, 0) >> >>

OpeningGame ==
  clickedOut([board |-> parseFEN(INITIAL_POSITION).board,
              capturedPieces |-> [white |-> << >>, black |-> << >>],
              castlingRights |-> parseFEN(INITIAL_POSITION).castlingRights,
              enPassantTarget |-> parseFEN(INITIAL_POSITION).enPassantTarget,
              moveHistory |-> << >>,
              currentPlayer |-> parseFEN(INITIAL_POSITION).activeColor,
              gameState |-> "active"],
             OpeningClicks, 1)

\* The useEffect, makeAIMove and performAIMove on game g in the given mode: the game
\* after the computer's move, when it is the computer's turn.
makeAIMove(g, mode) ==
  IF g.gameState # "active" \/ g.currentPlayer # BLACK \/ mode = "two-player" THEN g
  ELSE Bind(findBestMove(<< g.board >>, 1,
                         CASE mode = "computer-easy" -> AI_DEPTH.easy
                           [] mode = "computer-medium" -> AI_DEPTH.medium
                           [] mode = "computer-hard" -> AI_DEPTH.hard
                           [] OTHER -> 1,
                         TRUE, g.enPassantTarget, g.castlingRights).ret,
            LAMBDA aiMove :
              IF aiMove = NoMove
              THEN [g EXCEPT !.gameState = updateGameState(g.board, BLACK)]
              ELSE makeMove(g, aiMove))

\* The clicks of the human, each followed by the computer's move.
RECURSIVE playedAgainstAI(_, _, _, _)
playedAgainstAI(g, clicks, mode, i) ==
  IF i > Len(clicks) THEN g
  ELSE Bind(clickedMove(g, clicks[i][1], clicks[i][2]), LAMBDA clicked :
         Bind(makeAIMove(clicked, mode), LAMBDA answered :
           playedAgainstAI(answered, clicks, mode, i + 1)))

\* The opening of a game against the easy computer: 1. e4 2. Bc4 3. a3 4. Qf3, to which
\* the computer answers 1... Nc6 2... Nf6 3... Nxe4 4... Nxd2, leaving 5. Qxf7 mate.
MatingClicks ==
  << << Pos(6, 4), Pos(4, 4) >>, << Pos(7, 5), Pos(4, 2) >>,
     << Pos(6, 0), Pos(5, 0) >>, << Pos(7, 3), Pos(5, 5) >> >>

\* The plies at the head of the move history that follow the mating opening: the
\* human's moves are its clicks, the computer's whatever it has answered.
matingPlies ==
  LET follows(n) == \A i \in 1 .. n :
                      i % 2 = 1 => /\ moveHistory[i].from = MatingClicks[(i + 1) \div 2][1]
                                   /\ moveHistory[i].to = MatingClicks[(i + 1) \div 2][2]
      lengths == { n \in 0 .. Min(Len(moveHistory), 2 * Len(MatingClicks)) : follows(n) }
  IN CHOOSE n \in lengths : \A k \in lengths : k <= n

\* The plies played by clicking in the model: those after the opening when the game
\* has begun with one.
pliesPlayed ==
  IF /\ Len(moveHistory) >= Len(OpeningClicks)
     /\ SubSeq(moveHistory, 1, Len(OpeningClicks)) = OpeningGame.moveHistory
  THEN Len(moveHistory) - Len(OpeningClicks)
  ELSE IF matingPlies = 2 * Len(MatingClicks)
  THEN Len(moveHistory) - matingPlies
  ELSE Len(moveHistory)

HandleSquareClick(position) ==
  /\ gameState = "active"
  /\ ~(isAIThinking \/ (currentPlayer = BLACK /\ gameMode # "two-player"))
  /\ LET piece == board[position.row][position.col]
         moveToMake == FirstTo(validMoves, position)
     IN IF selectedPosition # NoPos
        THEN IF moveToMake # NoMove
             THEN /\ pliesPlayed < (IF gameMode = "two-player" THEN MaxPly ELSE MaxPlyAI)
                  /\ SetMoved(makeMove(Render, moveToMake))
                  /\ selectedPosition' = NoPos
                  /\ validMoves' = << >>
             ELSE IF selectedPosition.row = position.row /\ selectedPosition.col = position.col
             THEN /\ selectedPosition' = NoPos
                  /\ validMoves' = << >>
                  /\ UNCHANGED << board, capturedPieces, castlingRights, enPassantTarget,
                                  moveHistory, currentPlayer, gameState >>
             ELSE IF piece # NoPiece /\ piece.color = currentPlayer
             THEN /\ selectedPosition' = position
                  /\ validMoves' = selectPiece(Render, position)
                  /\ UNCHANGED << board, capturedPieces, castlingRights, enPassantTarget,
                                  moveHistory, currentPlayer, gameState >>
             ELSE /\ selectedPosition' = NoPos
                  /\ validMoves' = << >>
                  /\ UNCHANGED << board, capturedPieces, castlingRights, enPassantTarget,
                                  moveHistory, currentPlayer, gameState >>
        ELSE /\ piece # NoPiece /\ piece.color = currentPlayer
             /\ selectedPosition' = position
             /\ validMoves' = selectPiece(Render, position)
             /\ UNCHANGED << board, capturedPieces, castlingRights, enPassantTarget,
                             moveHistory, currentPlayer, gameState >>
  /\ UNCHANGED << gameMode, isAIThinking >>
  /\ AIEffect
  /\ UNCHANGED << fnVars, searchVars >>

\* The 500 ms timer of the effect fires: setIsAIThinking(true) and makeAIMove(), which
\* starts the 100 ms timer of performAIMove.
AITimeout ==
  /\ aiTimer = "t500"
  /\ isAIThinking' = TRUE
  /\ aiTimer' = "t100"
  /\ UNCHANGED << board, currentPlayer, gameState, selectedPosition, validMoves, gameMode,
                  moveHistory, capturedPieces, enPassantTarget, castlingRights, aiClosure >>
  /\ UNCHANGED << fnVars, searchVars >>

\* performAIMove, in the closure of the render that started the timer.
PerformAIMove ==
  /\ aiTimer = "t100"
  /\ \E aiMove \in { findBestMove(<< aiClosure.board >>, 1,
                                  CASE aiClosure.gameMode = "computer-easy" -> AI_DEPTH.easy
                                    [] aiClosure.gameMode = "computer-medium" -> AI_DEPTH.medium
                                    [] aiClosure.gameMode = "computer-hard" -> AI_DEPTH.hard
                                    [] OTHER -> 1,
                                  TRUE, aiClosure.enPassantTarget,
                                  aiClosure.castlingRights).ret } :
       IF aiMove # NoMove
       THEN SetMoved(makeMove(aiClosure, aiMove))
       ELSE /\ gameState' = updateGameState(aiClosure.board, BLACK)
            /\ UNCHANGED << board, capturedPieces, castlingRights, enPassantTarget,
                            moveHistory, currentPlayer >>
  /\ isAIThinking' = FALSE
  /\ UNCHANGED << selectedPosition, validMoves, gameMode >>
  /\ IF /\ << currentPlayer', gameState', gameMode' >> # << currentPlayer, gameState, gameMode >>
        /\ gameState' = "active" /\ currentPlayer' = BLACK /\ gameMode' # "two-player"
     THEN AIEffect
     ELSE aiTimer' = "none" /\ aiClosure' = NoClosure
  /\ UNCHANGED << fnVars, searchVars >>

\* undoMove's replay of newMoveHistory[i..] on the fresh board, rights and captures.
RECURSIVE replayMoves(_, _, _)
replayMoves(st, newMoveHistory, i) ==
  IF i > Len(newMoveHistory) THEN st
  ELSE LET move == newMoveHistory[i]
       IN replayMoves(
            [board |-> applyMove(<< st.board >>, 1, move)[1],
             castlingRights |-> updateCastlingRights(move, st.castlingRights),
             capturedPieces |->
               IF move.capturedPiece # NoPiece
               THEN [st.capturedPieces EXCEPT ![move.piece.color] =
                       Append(@, move.capturedPiece)]
               ELSE st.capturedPieces],
            newMoveHistory, i + 1)

UndoMove ==
  /\ ~isAIThinking
  /\ Len(moveHistory) # 0
  /\ LET movesToUndo == IF gameMode # "two-player" THEN 2 ELSE 1
         fen == parseFEN(INITIAL_POSITION)
         newMoveHistory == SubSeq(moveHistory, 1, Len(moveHistory) - movesToUndo)
         replayed == replayMoves([board |-> fen.board,
                                  castlingRights |-> fen.castlingRights,
                                  capturedPieces |-> [white |-> << >>, black |-> << >>]],
                                 newMoveHistory, 1)
         player == IF Len(newMoveHistory) % 2 = 0 THEN WHITE ELSE BLACK
     IN /\ Len(moveHistory) >= movesToUndo
        /\ board' = replayed.board
        /\ currentPlayer' = player
        /\ gameState' = updateGameState(replayed.board, player)
        /\ selectedPosition' = NoPos
        /\ validMoves' = << >>
        /\ capturedPieces' = replayed.capturedPieces
        /\ enPassantTarget' = NoPos
        /\ castlingRights' = replayed.castlingRights
        /\ moveHistory' = newMoveHistory
  /\ UNCHANGED << gameMode, isAIThinking >>
  /\ AIEffect
  /\ UNCHANGED << fnVars, searchVars >>

\* initializeBoard: the state it sets (gameMode apart).
initializeBoard ==
  LET fen == parseFEN(INITIAL_POSITION)
  IN /\ board' = fen.board
     /\ currentPlayer' = fen.activeColor
     /\ gameState' = "active"
     /\ selectedPosition' = NoPos
     /\ validMoves' = << >>
     /\ moveHistory' = << >>
     /\ capturedPieces' = [white |-> << >>, black |-> << >>]
     /\ enPassantTarget' = fen.enPassantTarget
     /\ castlingRights' = fen.castlingRights
     /\ isAIThinking' = FALSE

RestartGame ==
  /\ ~isAIThinking
  /\ initializeBoard
  /\ UNCHANGED gameMode
  /\ AIEffect
  /\ UNCHANGED << fnVars, searchVars >>

ChangeGameMode(mode) ==
  /\ ~isAIThinking
  /\ mode # gameMode
  /\ gameMode' = mode
  /\ initializeBoard
  /\ AIEffect
  /\ UNCHANGED << fnVars, searchVars >>

\* The component after it has mounted and initializeBoard has run.
GameInit ==
  LET fen == parseFEN(INITIAL_POSITION)
  IN /\ board = fen.board
     /\ currentPlayer = fen.activeColor
     /\ gameState = "active"
     /\ selectedPosition = NoPos
     /\ validMoves = << >>
     /\ gameMode = "two-player"
     /\ moveHistory = << >>
     /\ capturedPieces = [white |-> << >>, black |-> << >>]
     /\ enPassantTarget = fen.enPassantTarget
     /\ castlingRights = fen.castlingRights
     /\ isAIThinking = FALSE
     /\ aiTimer = "none"
     /\ aiClosure = NoClosure

NoArgs ==
  [board |-> EmptyBoard, position |-> NoPos, color |-> "none", moves |-> << >>,
   move |-> NoMove, depth |-> 0, isBlack |-> FALSE]

\* No caller of the exported functions other than the component.
FnIdle ==
  /\ fnBoard = EmptyBoard
  /\ fnEnPassantTarget = NoPos
  /\ fnCastlingRights = DefaultCastlingRights
  /\ movesApplied = 0
  /\ called = "none"
  /\ args = NoArgs
  /\ result = << >>
  /\ heapAfter = << >>
  /\ frames = << >>

Init == GameInit /\ FnIdle

NextOn(squares) ==
  \/ \E position \in squares : HandleSquareClick(position)
  \/ AITimeout
  \/ PerformAIMove
  \/ UndoMove
  \/ RestartGame
  \/ \E mode \in GameModes : ChangeGameMode(mode)

Next == NextOn(ClickSquares)

Spec == Init /\ [][Next]_vars

\* A second user, who clicks f2, f3, f4, g2, g3, g4, e7, e5, d8 and h4: the games in
\* which the black queen comes to h4.
CheckClickSquares ==
  { Pos(6, 5), Pos(5, 5), Pos(4, 5), Pos(6, 6), Pos(5, 6), Pos(4, 6), Pos(1, 4), Pos(3, 4),
    Pos(0, 3), Pos(4, 7) }

NextCheck == NextOn(CheckClickSquares)

SpecCheck == Init /\ [][NextCheck]_vars

\* A two-player game that has begun with the opening, and a user who clicks g7, g6,
\* g5, h5, b8, a7, a6, a3 and a4.
OpeningInit ==
  /\ board = OpeningGame.board
  /\ currentPlayer = OpeningGame.currentPlayer
  /\ gameState = OpeningGame.gameState
  /\ selectedPosition = NoPos
  /\ validMoves = << >>
  /\ gameMode = "two-player"
  /\ moveHistory = OpeningGame.moveHistory
  /\ capturedPieces = OpeningGame.capturedPieces
  /\ enPassantTarget = OpeningGame.enPassantTarget
  /\ castlingRights = OpeningGame.castlingRights
  /\ isAIThinking = FALSE
  /\ aiTimer = "none"
  /\ aiClosure = NoClosure
  /\ FnIdle

OpeningClickSquares ==
  { Pos(1, 6), Pos(2, 6), Pos(3, 6), Pos(3, 7), Pos(0, 1), Pos(1, 0), Pos(2, 0), Pos(5, 0),
    Pos(4, 0) }

NextOpening ==
  \/ \E position \in OpeningClickSquares : HandleSquareClick(position)
  \/ UndoMove
  \/ RestartGame

SpecOpening == OpeningInit /\ [][NextOpening]_vars

\* A game against the easy computer that has begun with the mating opening, and a
\* user who clicks f3, f7, c4, f2, g2, g4, e7, e5, d8 and h4.
MatingInit ==
  /\ \E g \in { playedAgainstAI([board |-> parseFEN(INITIAL_POSITION).board,
                                  capturedPieces |-> [white |-> << >>, black |-> << >>],
                                  castlingRights |-> parseFEN(INITIAL_POSITION).castlingRights,
                                  enPassantTarget |-> parseFEN(INITIAL_POSITION).enPassantTarget,
                                  moveHistory |-> << >>,
                                  currentPlayer |-> parseFEN(INITIAL_POSITION).activeColor,
                                  gameState |-> "active"],
                                 MatingClicks, "computer-easy", 1) } :
       /\ board = g.board
       /\ currentPlayer = g.currentPlayer
       /\ gameState = g.gameState
       /\ moveHistory = g.moveHistory
       /\ capturedPieces = g.capturedPieces
       /\ enPassantTarget = g.enPassantTarget
       /\ castlingRights = g.castlingRights
  /\ selectedPosition = NoPos
  /\ validMoves = << >>
  /\ gameMode = "computer-easy"
  /\ isAIThinking = FALSE
  /\ aiTimer = "none"
  /\ aiClosure = NoClosure
  /\ FnIdle

MatingClickSquares ==
  { Pos(5, 5), Pos(1, 5), Pos(4, 2), Pos(6, 5), Pos(6, 6), Pos(4, 6), Pos(1, 4), Pos(3, 4),
    Pos(0, 3), Pos(4, 7) }

NextMating == NextOn(MatingClickSquares)

SpecMating == MatingInit /\ [][NextMating]_vars

\* ---------------------------------------------- callers of the exported functions

\* The most moves the caller applies to its board, and the most it has applied when
\* it calls evaluateBoard or findBestMove.
MaxApplied == 1

MaxSearchApplied == 0

\* The deepest search the caller asks of findBestMove, and the most pieces on a board
\* it has searched deeper than one ply.
MaxDepth == 2

MaxDeepPieces == 4

\* The board that holds the listed pieces, each << row, col, type, color, hasMoved >>.
setUp(pieces) ==
  [r \in Rows |-> [c \in Cols |->
    IF \E i \in DOMAIN pieces : pieces[i][1] = r /\ pieces[i][2] = c
    THEN LET p == pieces[CHOOSE i \in DOMAIN pieces : pieces[i][1] = r /\ pieces[i][2] = c]
         IN Pc(p[3], p[4], p[5])
    ELSE NoPiece]]

NoCastlingRights ==
  [white |-> [kingSide |-> FALSE, queenSide |-> FALSE],
   black |-> [kingSide |-> FALSE, queenSide |-> FALSE]]

\* The boards the caller starts from, with the en-passant target and castling rights
\* it passes.
FnInputs ==
  << \* a lone white king facing a black rook down the e-file
     [board |-> setUp(<< <<7, 4, "king", WHITE, TRUE>>, <<0, 4, "rook", BLACK, TRUE>> >>),
      enPassantTarget |-> NoPos, castlingRights |-> NoCastlingRights],
     \* white mated on its back rank
     [board |-> setUp(<< <<7, 6, "king", WHITE, TRUE>>, <<6, 5, "pawn", WHITE, FALSE>>,
                         <<6, 6, "pawn", WHITE, FALSE>>, <<6, 7, "pawn", WHITE, FALSE>>,
                         <<7, 0, "rook", BLACK, TRUE>>, <<0, 4, "king", BLACK, TRUE>> >>),
      enPassantTarget |-> NoPos, castlingRights |-> NoCastlingRights],
     \* black stalemated in the corner
     [board |-> setUp(<< <<0, 0, "king", BLACK, TRUE>>, <<2, 1, "queen", WHITE, TRUE>>,
                         <<7, 4, "king", WHITE, TRUE>> >>),
      enPassantTarget |-> NoPos, castlingRights |-> NoCastlingRights],
     \* a white pawn about to promote, by advancing or by capturing
     [board |-> setUp(<< <<1, 0, "pawn", WHITE, TRUE>>, <<0, 1, "rook", BLACK, TRUE>>,
                         <<0, 7, "king", BLACK, TRUE>>, <<7, 4, "king", WHITE, TRUE>> >>),
      enPassantTarget |-> NoPos, castlingRights |-> NoCastlingRights],
     \* black has just played d7-d5 past the white pawn on e5
     [board |-> setUp(<< <<3, 4, "pawn", WHITE, TRUE>>, <<3, 3, "pawn", BLACK, TRUE>>,
                         <<7, 4, "king", WHITE, TRUE>>, <<0, 4, "king", BLACK, TRUE>> >>),
      enPassantTarget |-> Pos(2, 3), castlingRights |-> NoCastlingRights],
     \* white may castle on either side; a black rook bears on f1
     [board |-> setUp(<< <<7, 4, "king", WHITE, FALSE>>, <<7, 0, "rook", WHITE, FALSE>>,
                         <<7, 7, "rook", WHITE, FALSE>>, <<0, 5, "rook", BLACK, TRUE>>,
                         <<0, 3, "king", BLACK, TRUE>> >>),
      enPassantTarget |-> NoPos,
      castlingRights |-> [white |-> [kingSide |-> TRUE, queenSide |-> TRUE],
                          black |-> [kingSide |-> FALSE, queenSide |-> FALSE]]],
     \* a white bishop pinned to its king by a black rook
     [board |-> setUp(<< <<7, 4, "king", WHITE, TRUE>>, <<6, 4, "bishop", WHITE, TRUE>>,
                         <<0, 4, "rook", BLACK, TRUE>>, <<0, 0, "king", BLACK, TRUE>> >>),
      enPassantTarget |-> NoPos, castlingRights |-> NoCastlingRights],
     \* a white knight checks the black king
     [board |-> setUp(<< <<0, 4, "king", BLACK, TRUE>>, <<2, 3, "knight", WHITE, TRUE>>,
                         <<1, 4, "pawn", BLACK, FALSE>>, <<7, 4, "king", WHITE, TRUE>> >>),
      enPassantTarget |-> NoPos, castlingRights |-> NoCastlingRights],
     \* no king on the board
     [board |-> setUp(<< <<6, 0, "pawn", WHITE, FALSE>>, <<1, 1, "pawn", BLACK, FALSE>> >>),
      enPassantTarget |-> NoPos, castlingRights |-> NoCastlingRights] >>

InitFn ==
  /\ GameInit
  /\ \E i \in DOMAIN FnInputs :
       /\ fnBoard = FnInputs[i].board
       /\ fnEnPassantTarget = FnInputs[i].enPassantTarget
       /\ fnCastlingRights = FnInputs[i].castlingRights
  /\ movesApplied = 0
  /\ called = "none"
  /\ args = NoArgs
  /\ result = << >>
  /\ heapAfter = << >>
  /\ frames = << >>

Colors == { WHITE, BLACK }

Squares == { Pos(r, c) : r \in Rows, c \in Cols }

\* The squares the caller asks getPossibleMoves about: the occupied ones and h4.
ProbeSquares == { position \in Squares :
                   fnBoard[position.row][position.col] # NoPiece \/ position = Pos(4, 7) }

CallGetPossibleMoves(position) ==
  /\ called = "none"
  /\ called' = "getPossibleMoves"
  /\ args' = [NoArgs EXCEPT !.board = fnBoard, !.position = position]
  /\ result' = getPossibleMoves(fnBoard, position, fnEnPassantTarget, fnCastlingRights)
  /\ heapAfter' = << fnBoard >>
  /\ UNCHANGED << fnBoard, fnEnPassantTarget, fnCastlingRights, movesApplied >>
  /\ UNCHANGED << gameVars, searchVars >>

CallFilterLegalMoves(position, color) ==
  /\ called = "none"
  /\ fnBoard[position.row][position.col] # NoPiece
  /\ called' = "filterLegalMoves"
  /\ \E r \in { filterLegalMoves(<< fnBoard >>, 1,
                  getPossibleMoves(fnBoard, position, fnEnPassantTarget, fnCastlingRights),
                  color) } :
       /\ result' = r.ret
       /\ heapAfter' = r.heap
  /\ args' = [NoArgs EXCEPT
                !.board = fnBoard, !.position = position, !.color = color,
                !.moves = getPossibleMoves(fnBoard, position, fnEnPassantTarget,
                                           fnCastlingRights)]
  /\ UNCHANGED << fnBoard, fnEnPassantTarget, fnCastlingRights, movesApplied >>
  /\ UNCHANGED << gameVars, searchVars >>

CallIsKingInCheck(color) ==
  /\ called = "none"
  /\ called' = "isKingInCheck"
  /\ args' = [NoArgs EXCEPT !.board = fnBoard, !.color = color]
  /\ result' = isKingInCheck(fnBoard, color)
  /\ heapAfter' = << fnBoard >>
  /\ UNCHANGED << fnBoard, fnEnPassantTarget, fnCastlingRights, movesApplied >>
  /\ UNCHANGED << gameVars, searchVars >>

CallIsCheckmate(color) ==
  /\ called = "none"
  /\ called' = "isCheckmate"
  /\ args' = [NoArgs EXCEPT !.board = fnBoard, !.color = color]
  /\ \E r \in { isCheckmate(<< fnBoard >>, 1, color) } :
       /\ result' = r.ret
       /\ heapAfter' = r.heap
  /\ UNCHANGED << fnBoard, fnEnPassantTarget, fnCastlingRights, movesApplied >>
  /\ UNCHANGED << gameVars, searchVars >>

CallIsStalemate(color) ==
  /\ called = "none"
  /\ called' = "isStalemate"
  /\ args' = [NoArgs EXCEPT !.board = fnBoard, !.color = color]
  /\ \E r \in { isStalemate(<< fnBoard >>, 1, color) } :
       /\ result' = r.ret
       /\ heapAfter' = r.heap
  /\ UNCHANGED << fnBoard, fnEnPassantTarget, fnCastlingRights, movesApplied >>
  /\ UNCHANGED << gameVars, searchVars >>

\* applyMove(board, move) for a generated move: it writes into the caller's board.
CallApplyMove(position) ==
  /\ called = "none"
  /\ movesApplied < MaxApplied
  /\ \E i \in DOMAIN getPossibleMoves(fnBoard, position, fnEnPassantTarget,
                                       fnCastlingRights) :
       \E move \in { getPossibleMoves(fnBoard, position, fnEnPassantTarget,
                                      fnCastlingRights)[i] } :
         /\ args' = [NoArgs EXCEPT !.board = fnBoard, !.move = move]
         /\ heapAfter' = applyMove(<< fnBoard >>, 1, move)
         /\ fnBoard' = applyMove(<< fnBoard >>, 1, move)[1]
         /\ fnEnPassantTarget' = getEnPassantTarget(move)
  /\ called' = "applyMove"
  /\ result' = << >>
  /\ movesApplied' = movesApplied + 1
  /\ UNCHANGED fnCastlingRights
  /\ UNCHANGED << gameVars, searchVars >>

CallEvaluateBoard ==
  /\ called = "none"
  /\ movesApplied <= MaxSearchApplied
  /\ called' = "evaluateBoard"
  /\ args' = [NoArgs EXCEPT !.board = fnBoard]
  /\ \E r \in { evaluateBoard(<< fnBoard >>, 1) } :
       /\ result' = r.ret
       /\ heapAfter' = r.heap
  /\ UNCHANGED << fnBoard, fnEnPassantTarget, fnCastlingRights, movesApplied >>
  /\ UNCHANGED << gameVars, searchVars >>

CallFindBestMove(depth, isBlack) ==
  /\ called = "none"
  /\ movesApplied <= MaxSearchApplied
  /\ depth > 1 =>
       Cardinality({ position \in Squares :
                       fnBoard[position.row][position.col] # NoPiece }) <= MaxDeepPieces
  /\ called' = "findBestMove"
  /\ args' = [NoArgs EXCEPT !.board = fnBoard, !.depth = depth, !.isBlack = isBlack]
  /\ \E r \in { findBestMove(<< fnBoard >>, 1, depth, isBlack, fnEnPassantTarget,
                             fnCastlingRights) } :
       /\ result' = r.ret
       /\ heapAfter' = r.heap
  /\ UNCHANGED << fnBoard, fnEnPassantTarget, fnCastlingRights, movesApplied >>
  /\ UNCHANGED << gameVars, searchVars >>

\* The caller has used the result and goes on with its board.
Resume ==
  /\ called # "none"
  /\ frames = << >>
  /\ called' = "none"
  /\ args' = NoArgs
  /\ result' = << >>
  /\ heapAfter' = << >>
  /\ UNCHANGED << fnBoard, fnEnPassantTarget, fnCastlingRights, movesApplied >>
  /\ UNCHANGED << gameVars, searchVars >>

NextFn ==
  \/ \E position \in ProbeSquares : CallGetPossibleMoves(position)
  \/ \E position \in Squares, color \in Colors : CallFilterLegalMoves(position, color)
  \/ \E color \in Colors : CallIsKingInCheck(color)
  \/ \E color \in Colors : CallIsCheckmate(color)
  \/ \E color \in Colors : CallIsStalemate(color)
  \/ \E position \in Squares : CallApplyMove(position)
  \/ CallEvaluateBoard
  \/ \E depth \in 1 .. MaxDepth, isBlack \in BOOLEAN : CallFindBestMove(depth, isBlack)
  \/ Resume

SpecFn == InitFn /\ [][NextFn]_vars

\* ------------------------------------------------ callers of the move generator

\* The positions the caller of getPossibleMoves and isCheckmate holds, with the
\* en-passant target and castling rights it passes.
MoveInputs ==
  << \* the initial position
     [board |-> parseFEN(INITIAL_POSITION).board, enPassantTarget |-> NoPos,
      castlingRights |-> DefaultCastlingRights],
     \* pawns: black has just played d7-d5 past the white pawn on e5, with another
     \* black pawn beside it on f5; a white pawn on a7 and a black pawn on h2 about to
     \* promote, each with a piece to capture; the white pawns on c2 and g2 blocked
     \* two squares and one square ahead; the black pawn on b7 free to advance
     [board |-> setUp(<< <<3, 4, "pawn", WHITE, TRUE>>, <<3, 3, "pawn", BLACK, TRUE>>,
                         <<3, 5, "pawn", BLACK, TRUE>>, <<1, 0, "pawn", WHITE, TRUE>>,
                         <<0, 1, "rook", BLACK, TRUE>>, <<6, 7, "pawn", BLACK, TRUE>>,
                         <<7, 6, "knight", WHITE, FALSE>>, <<6, 2, "pawn", WHITE, FALSE>>,
                         <<4, 2, "knight", BLACK, TRUE>>, <<6, 6, "pawn", WHITE, FALSE>>,
                         <<5, 6, "bishop", BLACK, TRUE>>, <<1, 1, "pawn", BLACK, FALSE>>,
                         <<7, 4, "king", WHITE, TRUE>>, <<0, 4, "king", BLACK, TRUE>> >>),
      enPassantTarget |-> Pos(2, 3), castlingRights |-> NoCastlingRights],
     \* castling: white may castle on either side; black's f8 is occupied and its
     \* a8 rook has moved and come back
     [board |-> setUp(<< <<7, 4, "king", WHITE, FALSE>>, <<7, 0, "rook", WHITE, FALSE>>,
                         <<7, 7, "rook", WHITE, FALSE>>, <<0, 4, "king", BLACK, FALSE>>,
                         <<0, 0, "rook", BLACK, TRUE>>, <<0, 7, "rook", BLACK, FALSE>>,
                         <<0, 5, "bishop", BLACK, FALSE>> >>),
      enPassantTarget |-> NoPos, castlingRights |-> DefaultCastlingRights],
     \* castling: white has lost its king-side right and its a1 rook; black's corners
     \* hold a white rook and a black knight
     [board |-> setUp(<< <<7, 4, "king", WHITE, FALSE>>, <<7, 7, "rook", WHITE, FALSE>>,
                         <<0, 4, "king", BLACK, FALSE>>, <<0, 0, "rook", WHITE, TRUE>>,
                         <<0, 7, "knight", BLACK, TRUE>> >>),
      enPassantTarget |-> NoPos,
      castlingRights |-> [white |-> [kingSide |-> FALSE, queenSide |-> TRUE],
                          black |-> [kingSide |-> TRUE, queenSide |-> TRUE]]],
     \* pieces in the open: a white queen on d4 between its own rook on a4 and black
     \* pieces on d6, f6 and h4; the white king has castled
     [board |-> setUp(<< <<4, 3, "queen", WHITE, TRUE>>, <<4, 0, "rook", WHITE, TRUE>>,
                         <<2, 3, "pawn", BLACK, TRUE>>, <<2, 5, "knight", BLACK, TRUE>>,
                         <<4, 7, "rook", BLACK, TRUE>>, <<1, 6, "bishop", BLACK, TRUE>>,
                         <<7, 1, "knight", WHITE, FALSE>>, <<6, 3, "bishop", WHITE, TRUE>>,
                         <<7, 6, "king", WHITE, TRUE>>, <<7, 5, "rook", WHITE, TRUE>>,
                         <<0, 1, "king", BLACK, TRUE>> >>),
      enPassantTarget |-> NoPos, castlingRights |-> DefaultCastlingRights] >>

\* A white king on h1, a black queen beside it on g2 and a black king on square.
queenBesideKing(square) ==
  setUp(<< <<7, 7, "king", WHITE, TRUE>>, <<6, 6, "queen", BLACK, TRUE>>,
           <<square.row, square.col, "king", BLACK, TRUE>> >>)

InitMoves ==
  /\ GameInit
  /\ \/ \E i \in DOMAIN MoveInputs :
          /\ fnBoard = MoveInputs[i].board
          /\ fnEnPassantTarget = MoveInputs[i].enPassantTarget
          /\ fnCastlingRights = MoveInputs[i].castlingRights
     \/ \E square \in { Pos(r, c) : r \in Rows, c \in Cols } \ { Pos(7, 7), Pos(6, 6) } :
          /\ fnBoard = queenBesideKing(square)
          /\ fnEnPassantTarget = NoPos
          /\ fnCastlingRights = NoCastlingRights
  /\ movesApplied = 0
  /\ called = "none"
  /\ args = NoArgs
  /\ result = << >>
  /\ heapAfter = << >>
  /\ frames = << >>

NextMoves ==
  \/ \E position \in { Pos(r, c) : r \in Rows, c \in Cols } : CallGetPossibleMoves(position)
  \/ \E color \in { WHITE, BLACK } : CallIsCheckmate(color)
  \/ Resume

SpecMoves == InitMoves /\ [][NextMoves]_vars

\* ------------------------------------------- findBestMove, one call at a time

\* const newBoard = deepClone(board); applyMove(newBoard, move): the new board.
boardAfterMove(b, move) ==
  Bind(deepClone(<< b >>, 1), LAMBDA newBoard :
    applyMove(newBoard.heap, newBoard.ref, move)[newBoard.ref])

\* The deepest search run step by step.
MaxSearchDepth == 3

\* The most calls on the stack of a search: a search that would call deeper is left
\* where it stands.
MaxFrames == 5

\* The positions searched, each with the en-passant target the last move has created
\* and the side to move (isBlack).
SearchInputs ==
  << \* white has just played e2-e4 past the black pawn on d4
     [board |-> setUp(<< <<7, 4, "king", WHITE, TRUE>>, <<4, 4, "pawn", WHITE, TRUE>>,
                         <<0, 4, "king", BLACK, TRUE>>, <<4, 3, "pawn", BLACK, TRUE>> >>),
      enPassantTarget |-> Pos(5, 4), castlingRights |-> NoCastlingRights,
      isBlack |-> TRUE],
     \* black has just played d7-d5 past the white pawn on e5
     [board |-> setUp(<< <<7, 4, "king", WHITE, TRUE>>, <<3, 4, "pawn", WHITE, TRUE>>,
                         <<0, 4, "king", BLACK, TRUE>>, <<3, 3, "pawn", BLACK, TRUE>> >>),
      enPassantTarget |-> Pos(2, 3), castlingRights |-> NoCastlingRights,
      isBlack |-> FALSE],
     \* white has just played e2-e4 past the black pawn on d4; black has a knight on g4
     [board |-> setUp(<< <<7, 7, "king", WHITE, TRUE>>, <<4, 4, "pawn", WHITE, TRUE>>,
                         <<0, 0, "king", BLACK, TRUE>>, <<4, 3, "pawn", BLACK, TRUE>>,
                         <<4, 6, "knight", BLACK, TRUE>> >>),
      enPassantTarget |-> Pos(5, 4), castlingRights |-> NoCastlingRights,
      isBlack |-> TRUE] >>

InitSearch ==
  /\ GameInit
  /\ \E i \in DOMAIN SearchInputs :
       /\ fnBoard = SearchInputs[i].board
       /\ fnEnPassantTarget = SearchInputs[i].enPassantTarget
       /\ fnCastlingRights = SearchInputs[i].castlingRights
  /\ movesApplied = 0
  /\ called = "none"
  /\ args = NoArgs
  /\ result = << >>
  /\ heapAfter = << >>
  /\ frames = << >>

\* The frame of a call: its arguments, the moves its loop runs over (allMoves), how
\* many of them the loop has taken (index), bestScore, maxEval or minEval (best),
\* findBestMove's bestMove, whether the loop has broken and whether minimax has
\* returned evaluateBoard(board) without a loop (base).
Frame(fn, b, depth, alpha, beta, isMaximizingPlayer, target, rights, allMoves, best, base) ==
  [fn |-> fn, board |-> b, depth |-> depth, alpha |-> alpha, beta |-> beta,
   isMaximizingPlayer |-> isMaximizingPlayer, enPassantTarget |-> target,
   castlingRights |-> rights, allMoves |-> allMoves, index |-> 0, best |-> best,
   bestMove |-> NoMove, broken |-> FALSE, base |-> base]

\* findBestMove up to its loop.
findBestMoveFrame(b, depth, isBlack, target, rights) ==
  Bind(allLegalMoves(<< b >>, 1, IF isBlack THEN BLACK ELSE WHITE, target, rights),
       LAMBDA allMoves :
         Frame("findBestMove", b, depth, 0 - Infinity, Infinity, isBlack, target, rights,
               allMoves.ret, IF isBlack THEN 0 - Infinity ELSE Infinity,
               Len(allMoves.ret) = 0))

\* minimax up to its loop, or to its return of evaluateBoard(board).
minimaxFrame(b, depth, alpha, beta, isMaximizingPlayer, target, rights) ==
  Bind(isTerminal(<< b >>, 1, depth), LAMBDA terminal :
    IF terminal.ret
    THEN Frame("minimax", b, depth, alpha, beta, isMaximizingPlayer, target, rights,
               << >>, evaluateBoard(<< b >>, 1).ret, TRUE)
    ELSE Bind(allLegalMoves(<< b >>, 1, IF isMaximizingPlayer THEN BLACK ELSE WHITE,
                            target, rights),
              LAMBDA allMoves :
                IF Len(allMoves.ret) = 0
                THEN Frame("minimax", b, depth, alpha, beta, isMaximizingPlayer, target,
                           rights, << >>, evaluateBoard(<< b >>, 1).ret, TRUE)
                ELSE Frame("minimax", b, depth, alpha, beta, isMaximizingPlayer, target,
                           rights, allMoves.ret,
                           IF isMaximizingPlayer THEN 0 - Infinity ELSE Infinity, FALSE)))

\* The call has nothing left to do but return.
frameDone(frame) ==
  frame.base \/ frame.broken \/ frame.index = Len(frame.allMoves)

\* frameAfterReturn whose minimax loop breaks after the first move it has scored.
frameAfterFirstReturn(frame, score) ==
  IF frame.fn = "findBestMove"
  THEN IF (IF frame.isMaximizingPlayer THEN score > frame.best ELSE score < frame.best)
       THEN [frame EXCEPT !.best = score, !.bestMove = frame.allMoves[frame.index]]
       ELSE frame
  ELSE IF frame.isMaximizingPlayer
  THEN [frame EXCEPT !.best = Max(frame.best, score), !.alpha = Max(frame.alpha, score),
                     !.broken = TRUE]
  ELSE [frame EXCEPT !.best = Min(frame.best, score), !.beta = Min(frame.beta, score),
                     !.broken = TRUE]

\* The caller's frame after the call it made for allMoves[index] has returned score.
frameAfterReturn(frame, score) ==
  IF frame.fn = "findBestMove"
  THEN IF (IF frame.isMaximizingPlayer THEN score > frame.best ELSE score < frame.best)
       THEN [frame EXCEPT !.best = score, !.bestMove = frame.allMoves[frame.index]]
       ELSE frame
  ELSE IF frame.isMaximizingPlayer
  THEN [frame EXCEPT !.best = Max(frame.best, score),
                     !.alpha = Max(frame.alpha, score),
                     !.broken = frame.beta <= Max(frame.alpha, score)]
  ELSE [frame EXCEPT !.best = Min(frame.best, score),
                     !.beta = Min(frame.beta, score),
                     !.broken = Min(frame.beta, score) <= frame.alpha]

\* The caller calls findBestMove on its board for the side to move.
FindBestMoveCall(depth) ==
  /\ called = "none"
  /\ frames = << >>
  /\ \E i \in DOMAIN SearchInputs :
       /\ SearchInputs[i].board = fnBoard
       /\ args' = [NoArgs EXCEPT !.board = fnBoard, !.depth = depth,
                                 !.isBlack = SearchInputs[i].isBlack]
       /\ frames' = << findBestMoveFrame(fnBoard, depth, SearchInputs[i].isBlack,
                                         fnEnPassantTarget, fnCastlingRights) >>
  /\ called' = "findBestMove"
  /\ UNCHANGED << fnBoard, fnEnPassantTarget, fnCastlingRights, movesApplied, result,
                  heapAfter >>
  /\ UNCHANGED gameVars

\* The loop of the running call takes its next move, applies it to a clone of the
\* board and calls minimax on it.
MinimaxCall ==
  /\ frames # << >>
  /\ Len(frames) < MaxFrames
  /\ ~frameDone(frames[Len(frames)])
  /\ \E caller \in { frames[Len(frames)] } :
       \E newBoard \in { boardAfterMove(caller.board, caller.allMoves[caller.index + 1]) } :
         frames' = Append([frames EXCEPT ![Len(frames)].index = caller.index + 1],
                          minimaxFrame(newBoard, caller.depth - 1, caller.alpha,
                                       caller.beta, ~caller.isMaximizingPlayer,
                                       caller.enPassantTarget, caller.castlingRights))
  /\ UNCHANGED fnVars
  /\ UNCHANGED gameVars

\* The running call of minimax returns to the loop that called it.
MinimaxReturn ==
  /\ Len(frames) >= 2
  /\ frameDone(frames[Len(frames)])
  /\ frames' = Append(SubSeq(frames, 1, Len(frames) - 2),
                       frameAfterReturn(frames[Len(frames) - 1], frames[Len(frames)].best))
  /\ UNCHANGED fnVars
  /\ UNCHANGED gameVars

\* findBestMove returns bestMove.
FindBestMoveReturn ==
  /\ Len(frames) = 1
  /\ frameDone(frames[1])
  /\ result' = frames[1].bestMove
  /\ heapAfter' = << fnBoard >>
  /\ frames' = << >>
  /\ UNCHANGED << fnBoard, fnEnPassantTarget, fnCastlingRights, movesApplied, called, args >>
  /\ UNCHANGED gameVars

NextSearch ==
  \/ \E depth \in 0 .. MaxSearchDepth : FindBestMoveCall(depth)
  \/ MinimaxCall
  \/ MinimaxReturn
  \/ FindBestMoveReturn
  \/ Resume

SpecSearch == InitSearch /\ [][NextSearch]_vars

\* ------------------------------------------------------------------ properties

\* The board after move has been applied to a copy of board.
boardAfter(b, move) == applyMove(<< b >>, 1, move)[1]

\* The pseudo-legal moves of every piece of color on board b.
pseudoLegalMovesOf(b, color, target, rights) ==
  UNION { { getPossibleMoves(b, position, target, rights)[i] :
              i \in DOMAIN getPossibleMoves(b, position, target, rights) } :
          position \in { q \in Squares : b[q.row][q.col] # NoPiece
                                           /\ b[q.row][q.col].color = color } }

\* The legal moves of color on board b: the pseudo-legal moves after which color's
\* king is not in check.
legalMovesOf(b, color, target, rights) ==
  { move \in pseudoLegalMovesOf(b, color, target, rights) :
      ~isKingInCheck(boardAfter(b, move), color) }

\* ---------------------------------------------------- callers of the evaluator

\* The positions the caller of evaluateBoard and findBestMove starts from.
EvalInputs ==
  << \* white mated on its back rank
     setUp(<< <<7, 6, "king", WHITE, TRUE>>, <<6, 5, "pawn", WHITE, FALSE>>,
              <<6, 6, "pawn", WHITE, FALSE>>, <<6, 7, "pawn", WHITE, FALSE>>,
              <<7, 0, "rook", BLACK, TRUE>>, <<0, 4, "king", BLACK, TRUE>> >>),
     \* black mated in the corner by the white queen its king defends
     setUp(<< <<0, 0, "king", BLACK, TRUE>>, <<1, 1, "queen", WHITE, TRUE>>,
              <<2, 2, "king", WHITE, TRUE>> >>),
     \* black stalemated in the corner
     setUp(<< <<0, 0, "king", BLACK, TRUE>>, <<2, 1, "queen", WHITE, TRUE>>,
              <<7, 4, "king", WHITE, TRUE>> >>),
     \* white stalemated in the corner
     setUp(<< <<7, 7, "king", WHITE, TRUE>>, <<6, 5, "queen", BLACK, TRUE>>,
              <<0, 0, "king", BLACK, TRUE>> >>),
     \* a middle game: a queen on the board and white with five pieces
     setUp(<< <<7, 6, "king", WHITE, TRUE>>, <<7, 3, "queen", WHITE, FALSE>>,
              <<4, 4, "pawn", WHITE, TRUE>>, <<6, 5, "pawn", WHITE, FALSE>>,
              <<6, 6, "pawn", WHITE, FALSE>>, <<0, 6, "king", BLACK, TRUE>>,
              <<3, 3, "pawn", BLACK, TRUE>>, <<2, 5, "knight", BLACK, TRUE>> >>),
     \* an endgame: a black rook pins a white bishop to its king and may take it
     setUp(<< <<7, 4, "king", WHITE, TRUE>>, <<6, 4, "bishop", WHITE, TRUE>>,
              <<0, 4, "rook", BLACK, TRUE>>, <<0, 0, "king", BLACK, TRUE>>,
              <<4, 1, "pawn", WHITE, TRUE>> >>) >>

\* The most pieces on a position the caller moves a piece of before it calls.
MaxMovedPieces == 5

\* The positions one legal move of either color away from board b, when b holds no
\* more than MaxMovedPieces pieces.
oneMoveFrom(b) ==
  IF Cardinality({ q \in Squares : b[q.row][q.col] # NoPiece }) > MaxMovedPieces THEN {}
  ELSE { boardAfter(b, move) :
           move \in legalMovesOf(b, WHITE, NoPos, NoCastlingRights)
                      \cup legalMovesOf(b, BLACK, NoPos, NoCastlingRights) }

InitEval ==
  /\ GameInit
  /\ \E i \in DOMAIN EvalInputs :
       fnBoard \in { EvalInputs[i] } \cup oneMoveFrom(EvalInputs[i])
  /\ fnEnPassantTarget = NoPos
  /\ fnCastlingRights = NoCastlingRights
  /\ movesApplied = 0
  /\ called = "none"
  /\ args = NoArgs
  /\ result = << >>
  /\ heapAfter = << >>
  /\ frames = << >>

NextEval ==
  \/ CallEvaluateBoard
  \/ \E isBlack \in BOOLEAN : CallFindBestMove(1, isBlack)
  \/ Resume

SpecEval == InitEval /\ [][NextEval]_vars

\* C1: filterLegalMoves(board, moves, color) returns exactly the moves of the input
\* list, in the same order and unaltered, for which applying the move to a copy of
\* the board leaves color's king not in check according to isKingInCheck.
FilterLegalMovesExact ==
  called = "filterLegalMoves" =>
    result = SelectSeq(args.moves,
               LAMBDA move : ~isKingInCheck(boardAfter(args.board, move), args.color))

\* A call of filterLegalMoves that keeps some moves of its input and drops others.
FilterLegalMovesWitness ==
  /\ called = "filterLegalMoves"
  /\ Len(result) > 0
  /\ Len(result) < Len(args.moves)

\* C2: isKingInCheck(board, color) is true iff some piece of the opposite color has a
\* pseudo-legal move (getPossibleMoves with no en-passant target) whose destination
\* is the square of color's king; the lone white king at (7,4) facing the black rook
\* at (0,4) is in check, and a board without a king of that color yields false.
KingInCheckIff ==
  called = "isKingInCheck" =>
    /\ result =
         \E king \in { q \in Squares :
                         /\ args.board[q.row][q.col] # NoPiece
                         /\ args.board[q.row][q.col].type = "king"
                         /\ args.board[q.row][q.col].color = args.color } :
           \E move \in pseudoLegalMovesOf(args.board, opposite(args.color), NoPos,
                                          DefaultCastlingRights) :
             move.to = king
    /\ (args.board = FnInputs[1].board /\ args.color = WHITE) => result
    /\ (\A q \in Squares :
          ~(/\ args.board[q.row][q.col] # NoPiece
            /\ args.board[q.row][q.col].type = "king"
            /\ args.board[q.row][q.col].color = args.color)) => ~result

\* isKingInCheck has answered true for the lone white king facing the black rook.
KingInCheckWitness ==
  /\ called = "isKingInCheck"
  /\ args.board = FnInputs[1].board
  /\ args.color = WHITE
  /\ result

\* C3: isCheckmate(B, C) is true iff isKingInCheck(B, C) is true and the union of the
\* legal moves over every piece of C is empty.
CheckmateIff ==
  called = "isCheckmate" =>
    result = (/\ isKingInCheck(args.board, args.color)
              /\ legalMovesOf(args.board, args.color, NoPos, DefaultCastlingRights) = {})

\* isCheckmate has answered true.
CheckmateWitness ==
  /\ called = "isCheckmate"
  /\ result

\* C4: isStalemate(B, C) is true iff isKingInCheck(B, C) is false and the union of the
\* legal moves over every piece of C is empty; isCheckmate(B, C) and isStalemate(B, C)
\* are never both true.
StalemateIff ==
  called = "isStalemate" =>
    /\ result = (/\ ~isKingInCheck(args.board, args.color)
                 /\ legalMovesOf(args.board, args.color, NoPos, DefaultCastlingRights) = {})
    /\ ~(result /\ isCheckmate(<< args.board >>, 1, args.color).ret)

\* isStalemate has answered true for a color that has a king.
StalemateWitness ==
  /\ called = "isStalemate"
  /\ result
  /\ findKing(args.board, args.color) # NoPos

\* C5: findBestMove returns none exactly when the side to move has no legal move on
\* the given board; when there is a legal move (depth >= 1) it returns a member of
\* that side's legal moves for the board, en-passant target and castling rights.
FindBestMoveLegal ==
  called = "findBestMove" =>
    LET legal == legalMovesOf(args.board, IF args.isBlack THEN BLACK ELSE WHITE,
                              fnEnPassantTarget, fnCastlingRights)
    IN /\ (result = NoMove) = (legal = {})
       /\ legal # {} => result \in legal

\* findBestMove has searched two plies deep and returned a move.
FindBestMoveWitness ==
  /\ called = "findBestMove"
  /\ args.depth >= 2
  /\ result # NoMove

\* C6: applyMove empties move.from; writes to move.to the moved piece with hasMoved
\* true, or for a promotion a piece of the mover's color of type promotionPieceType
\* (queen when none) with hasMoved true; for castling also moves the rook from
\* castlingRookFrom to castlingRookTo with hasMoved true; for en passant also empties
\* enPassantCapturePos, a square other than move.to; every other square is unchanged.
ApplyMoveFrame ==
  called = "applyMove" =>
    LET move == args.move
        before == args.board
        after == heapAfter[1]
        castles == move.type = "castle-kingside" \/ move.type = "castle-queenside"
        passes == move.type = "en-passant"
    IN /\ after[move.from.row][move.from.col] = NoPiece
       /\ after[move.to.row][move.to.col] =
            IF move.type = "promotion" \/ move.type = "capture-and-promotion"
            THEN Pc(IF move.promotionPieceType = "none" THEN "queen"
                    ELSE move.promotionPieceType, move.piece.color, TRUE)
            ELSE Pc(move.piece.type, move.piece.color, TRUE)
       /\ castles =>
            /\ after[move.castlingRookFrom.row][move.castlingRookFrom.col] = NoPiece
            /\ after[move.castlingRookTo.row][move.castlingRookTo.col] =
                 Pc("rook", move.piece.color, TRUE)
            /\ before[move.castlingRookFrom.row][move.castlingRookFrom.col].type = "rook"
       /\ passes =>
            /\ after[move.enPassantCapturePos.row][move.enPassantCapturePos.col] = NoPiece
            /\ move.enPassantCapturePos # move.to
       /\ \A q \in Squares :
            \/ q = move.from
            \/ q = move.to
            \/ castles /\ (q = move.castlingRookFrom \/ q = move.castlingRookTo)
            \/ passes /\ q = move.enPassantCapturePos
            \/ after[q.row][q.col] = before[q.row][q.col]
       /\ fnBoard = after

\* applyMove has applied an en-passant capture.
ApplyMoveWitness ==
  /\ called = "applyMove"
  /\ args.move.type = "en-passant"
  /\ heapAfter[1][args.move.enPassantCapturePos.row][args.move.enPassantCapturePos.col]
       = NoPiece

\* C7: getPossibleMoves, filterLegalMoves, isKingInCheck, isCheckmate, isStalemate,
\* evaluateBoard and findBestMove never modify the board passed to them: the caller's
\* board is the same before and after the call, no copy outlives the call, and
\* getPossibleMoves called again on the board yields the same moves.
BoardNotModified ==
  called \in { "getPossibleMoves", "filterLegalMoves", "isKingInCheck", "isCheckmate",
               "isStalemate", "evaluateBoard", "findBestMove" } =>
    /\ heapAfter = << args.board >>
    /\ fnBoard = args.board
    /\ called = "getPossibleMoves" =>
         getPossibleMoves(heapAfter[1], args.position, fnEnPassantTarget,
                          fnCastlingRights) = result

\* evaluateBoard has scored a board on which both sides have legal moves, which it
\* counted by applying each of them to a copy.
BoardNotModifiedWitness ==
  /\ called = "evaluateBoard"
  /\ heapAfter = << args.board >>
  /\ legalMovesOf(args.board, WHITE, NoPos, DefaultCastlingRights) # {}
  /\ legalMovesOf(args.board, BLACK, NoPos, DefaultCastlingRights) # {}

\* The origin corner of color's rook of a side.
originCorner(color, side) ==
  Pos(IF color = WHITE THEN 7 ELSE 0, IF side = "kingSide" THEN 7 ELSE 0)

Sides == { "kingSide", "queenSide" }

\* A step of the live game in which a player or the computer makes a move: the move
\* history grows (an undo shortens it, a restart empties it).
MoveMade == Len(moveHistory') > Len(moveHistory)

\* The castling rights a MoveMade step updates: those of the render the move is made
\* in, which for the computer's move is the render that started its timer.
rightsBeforeMove ==
  IF aiTimer = "t100" THEN aiClosure.castlingRights ELSE castlingRights

\* C8: in the live game a move changes color's castling right on a side only if it
\* is a move of color's king, a move of color's rook away from the origin corner of
\* that side, or a capture of color's rook on the origin corner of that side.
CastlingRightChangeCases ==
  [][MoveMade =>
       \A color \in Colors, side \in Sides :
         castlingRights'[color][side] # rightsBeforeMove[color][side] =>
           LET move == moveHistory'[Len(moveHistory')]
           IN \/ move.piece.type = "king" /\ move.piece.color = color
              \/ /\ move.piece.type = "rook" /\ move.piece.color = color
                 /\ move.from = originCorner(color, side)
              \/ /\ move.capturedPiece.type = "rook" /\ move.capturedPiece.color = color
                 /\ move.to = originCorner(color, side)]_vars

\* C10: a castling right that is false is still false after every move made by a
\* player or by the computer.
CastlingRightsMonotone ==
  [][MoveMade =>
       \A color \in Colors, side \in Sides :
         ~castlingRights[color][side] => ~castlingRights'[color][side]]_vars

\* Against the computer, white's rook has left a1, and both white and the computer
\* have moved since; white's queen-side right is false.
CastlingRightsMonotoneWitness ==
  /\ gameMode = "computer-easy"
  /\ ~castlingRights[WHITE]["queenSide"]
  /\ \E i \in 1 .. Len(moveHistory) - 1 :
       /\ moveHistory[i].piece.type = "rook"
       /\ moveHistory[i].from = Pos(7, 0)
       /\ moveHistory[Len(moveHistory)].piece.color = BLACK

\* C9: at every node of the search tree of findBestMove below the root, an en-passant
\* capture is among the generated moves only if the move that led to the node was a
\* two-square pawn advance whose en-passant target is the square captured onto.
EnPassantOnlyAfterDoubleAdvance ==
  \A k \in 2 .. Len(frames) :
    \A i \in DOMAIN frames[k].allMoves :
      frames[k].allMoves[i].type = "en-passant" =>
        getEnPassantTarget(frames[k - 1].allMoves[frames[k - 1].index])
          = frames[k].allMoves[i].to

\* The piece a call of getPossibleMoves has asked about.
askedPiece == args.board[args.position.row][args.position.col]

\* The square at (row, col) is on the board and empty.
isEmptySquare(b, row, col) ==
  row \in Rows /\ col \in Cols /\ b[row][col] = NoPiece

\* The square at (row, col) is on the board and holds a piece of another color.
holdsEnemy(b, row, col, color) ==
  row \in Rows /\ col \in Cols /\ b[row][col] # NoPiece /\ b[row][col].color # color

\* The moves the rules of the pawn give the pawn of color on position of board b, each
\* << destination, kind >>.
pawnRuleMoves(b, position, color, target) ==
  LET direction == IF color = WHITE THEN -1 ELSE 1
      ahead == position.row + direction
      diagonals == { position.col - 1, position.col + 1 }
  IN (IF isEmptySquare(b, ahead, position.col)
      THEN { << Pos(ahead, position.col), "forward" >> } ELSE {})
     \cup (IF /\ position.row = (IF color = WHITE THEN 6 ELSE 1)
               /\ isEmptySquare(b, ahead, position.col)
               /\ isEmptySquare(b, ahead + direction, position.col)
            THEN { << Pos(ahead + direction, position.col), "forward" >> } ELSE {})
     \cup { << Pos(ahead, col), "capture" >> :
              col \in { c \in diagonals : holdsEnemy(b, ahead, c, color) } }
     \cup { << Pos(ahead, col), "en-passant" >> :
              col \in { c \in diagonals :
                          /\ Pos(ahead, c) = target
                          /\ holdsEnemy(b, position.row, c, color)
                          /\ b[position.row][c].type = "pawn" } }

\* The kind of a generated pawn move.
pawnMoveKind(move) ==
  CASE move.type = "en-passant" -> "en-passant"
    [] move.type \in { "capture", "capture-and-promotion" } -> "capture"
    [] move.type \in { "normal", "promotion" } -> "forward"
    [] OTHER -> move.type

\* C11: for a pawn, getPossibleMoves yields exactly the square one step forward iff
\* it is empty, the square two steps forward iff the pawn is on its starting rank and
\* both squares ahead are empty, each forward-diagonal square iff it holds an enemy
\* piece, and an en-passant capture iff the forward-diagonal square is the en-passant
\* target and an enemy pawn stands beside the pawn on that file, and no other move;
\* the pawn at (6,4) of the initial position has exactly the moves to (5,4) and (4,4).
PawnMovesExact ==
  (called = "getPossibleMoves" /\ askedPiece.type = "pawn") =>
    /\ { << result[i].to, pawnMoveKind(result[i]) >> : i \in DOMAIN result }
         = pawnRuleMoves(args.board, args.position, askedPiece.color, fnEnPassantTarget)
    /\ \A i \in DOMAIN result : result[i].from = args.position /\ result[i].piece = askedPiece
    /\ (/\ args.board = parseFEN(INITIAL_POSITION).board
        /\ args.position = Pos(6, 4)
        /\ fnEnPassantTarget = NoPos) =>
          /\ Len(result) = 2
          /\ { result[i].to : i \in DOMAIN result } = { Pos(5, 4), Pos(4, 4) }

\* getPossibleMoves has answered for a pawn that may advance and capture en passant.
PawnMovesWitness ==
  /\ called = "getPossibleMoves"
  /\ askedPiece.type = "pawn"
  /\ \E i \in DOMAIN result : result[i].type = "en-passant"
  /\ \E i \in DOMAIN result : result[i].type = "normal"

\* C12: every pawn move that lands on the farthest rank is generated as exactly four
\* moves with the same from and to, one for each of queen, rook, bishop and knight,
\* typed promotion without a capture and capture-and-promotion with one; no pawn move
\* onto that rank is without a promotion piece type.
PromotionInFours ==
  (called = "getPossibleMoves" /\ askedPiece.type = "pawn") =>
    \A i \in DOMAIN result :
      result[i].to.row = (IF askedPiece.color = WHITE THEN 0 ELSE 7) =>
        /\ result[i].promotionPieceType \in { "queen", "rook", "bishop", "knight" }
        /\ Cardinality({ j \in DOMAIN result : result[j].to = result[i].to }) = 4
        /\ \A j \in DOMAIN result :
             result[j].to = result[i].to =>
               /\ result[j].from = result[i].from
               /\ (j # i => result[j].promotionPieceType # result[i].promotionPieceType)
               /\ result[j].type = (IF args.board[result[i].to.row][result[i].to.col] # NoPiece
                                    THEN "capture-and-promotion" ELSE "promotion")
               /\ result[j].capturedPiece = args.board[result[i].to.row][result[i].to.col]

\* getPossibleMoves has answered for a pawn that may promote by advancing and by
\* capturing.
PromotionWitness ==
  /\ called = "getPossibleMoves"
  /\ askedPiece.type = "pawn"
  /\ \E i \in DOMAIN result : result[i].type = "promotion"
  /\ \E i \in DOMAIN result : result[i].type = "capture-and-promotion"

\* The type of the castling move of a side.
castleType(side) ==
  IF side = "kingSide" THEN "castle-kingside" ELSE "castle-queenside"

\* The column of the corner of a side.
cornerCol(side) == IF side = "kingSide" THEN 7 ELSE 0

\* The king of color on position of board b, with the given castling rights, may
\* castle on side as far as the king, the right, the rook and the squares between
\* them go.
mayCastle(b, position, king, rights, side) ==
  /\ ~king.hasMoved
  /\ rights[king.color][side]
  /\ b[position.row][cornerCol(side)] # NoPiece
  /\ b[position.row][cornerCol(side)].type = "rook"
  /\ b[position.row][cornerCol(side)].color = king.color
  /\ ~b[position.row][cornerCol(side)].hasMoved
  /\ \A c \in Cols :
       (Min(position.col, cornerCol(side)) < c /\ c < Max(position.col, cornerCol(side)))
         => b[position.row][c] = NoPiece

\* C13: getPossibleMoves generates a castling move for a king on a side iff the king
\* has not moved, its color's right for the side is set, the corner of the side on the
\* king's rank holds a rook of its color that has not moved, and the squares between
\* king and rook are empty; the move places the king two columns toward the rook and
\* the rook on the square the king has passed over.
CastlingMovesExact ==
  (called = "getPossibleMoves" /\ askedPiece.type = "king") =>
    \A side \in Sides :
      LET toward == IF side = "kingSide" THEN 1 ELSE -1
          castles == { i \in DOMAIN result : result[i].type = castleType(side) }
      IN /\ (castles # {}) = mayCastle(args.board, args.position, askedPiece,
                                       fnCastlingRights, side)
         /\ Cardinality(castles) <= 1
         /\ \A i \in castles :
              /\ result[i].from = args.position
              /\ result[i].piece = askedPiece
              /\ result[i].to = Pos(args.position.row, args.position.col + 2 * toward)
              /\ result[i].castlingRookFrom = Pos(args.position.row, cornerCol(side))
              /\ result[i].castlingRookTo = Pos(args.position.row, args.position.col + toward)

\* getPossibleMoves has answered for a king that may castle on either side.
CastlingMovesWitness ==
  /\ called = "getPossibleMoves"
  /\ askedPiece.type = "king"
  /\ \E i \in DOMAIN result : result[i].type = "castle-kingside"
  /\ \E i \in DOMAIN result : result[i].type = "castle-queenside"

\* The steps of a knight and of a king, and the directions of the rays of a bishop, a
\* rook and a queen, each << rows, columns >>.
knightLeaps ==
  { d \in { -2, -1, 1, 2 } \X { -2, -1, 1, 2 } : d[1] * d[1] + d[2] * d[2] = 5 }

kingSteps == ({ -1, 0, 1 } \X { -1, 0, 1 }) \ { << 0, 0 >> }

rayDirections(type) ==
  CASE type = "bishop" -> { d \in kingSteps : d[1] # 0 /\ d[2] # 0 }
    [] type = "rook" -> { d \in kingSteps : d[1] = 0 \/ d[2] = 0 }
    [] type = "queen" -> kingSteps
    [] OTHER -> {}

\* The squares the geometry of the piece on position of board b gives it: a leap or a
\* step away, or along a ray with every square before them empty; never a square
\* that holds a piece of its color.
geometryDestinations(b, position, piece) ==
  LET leaps == CASE piece.type = "knight" -> knightLeaps
                 [] piece.type = "king" -> kingSteps
                 [] OTHER -> {}
      reached ==
        { Pos(position.row + d[1], position.col + d[2]) : d \in leaps }
        \cup UNION { { Pos(position.row + k * d[1], position.col + k * d[2]) :
                         k \in { n \in 1 .. 7 :
                                   \A j \in 1 .. (n - 1) :
                                     isEmptySquare(b, position.row + j * d[1],
                                                   position.col + j * d[2]) } } :
                       d \in rayDirections(piece.type) }
  IN { q \in reached : /\ q.row \in Rows /\ q.col \in Cols
                       /\ (b[q.row][q.col] = NoPiece \/ b[q.row][q.col].color # piece.color) }

\* C14: for a knight, a bishop, a rook, a queen and the king's steps other than
\* castling, getPossibleMoves yields exactly the destinations of the piece's geometry,
\* each once, on the board and never on a piece of the mover's color, as a capture
\* naming the occupant iff the destination holds an enemy piece and as a normal move
\* otherwise.
PieceGeometryExact ==
  (/\ called = "getPossibleMoves"
   /\ askedPiece.type \in { "knight", "bishop", "rook", "queen", "king" }) =>
    LET steps == { i \in DOMAIN result :
                     result[i].type \notin { "castle-kingside", "castle-queenside" } }
        destinations == geometryDestinations(args.board, args.position, askedPiece)
    IN /\ { result[i].to : i \in steps } = destinations
       /\ Cardinality(steps) = Cardinality(destinations)
       /\ \A i \in steps :
            /\ result[i].from = args.position
            /\ result[i].piece = askedPiece
            /\ result[i].capturedPiece = args.board[result[i].to.row][result[i].to.col]
            /\ result[i].type = (IF args.board[result[i].to.row][result[i].to.col] # NoPiece
                                 THEN "capture" ELSE "normal")

\* getPossibleMoves has answered for a queen that has a piece of its own color and
\* enemy pieces on its rays.
PieceGeometryWitness ==
  /\ called = "getPossibleMoves"
  /\ askedPiece.type = "queen"
  /\ \E i \in DOMAIN result : result[i].type = "capture"
  /\ \E i \in DOMAIN result : result[i].type = "normal"
  /\ \E c \in Cols : /\ c # args.position.col
                     /\ args.board[args.position.row][c] # NoPiece
                     /\ args.board[args.position.row][c].color = askedPiece.color
                     /\ \A i \in DOMAIN result : result[i].to # Pos(args.position.row, c)

\* isCheckmate has been asked about white on a board that holds only a white king on
\* (7,7), a black queen on (6,6) and a black king that is not in check; blackKing is
\* the black king's square.
queenBesideKingAsked(blackKing) ==
  /\ called = "isCheckmate"
  /\ args.color = WHITE
  /\ blackKing \notin { Pos(7, 7), Pos(6, 6) }
  /\ args.board = queenBesideKing(blackKing)
  /\ ~isKingInCheck(args.board, BLACK)

\* C20: on a board that holds only a white king at (7,7), a black queen at (6,6) and
\* a black king on another square where it is not in check, isCheckmate(board, white)
\* is true.
QueenBesideKingMates ==
  \A blackKing \in Squares : queenBesideKingAsked(blackKing) => result

\* Two squares are next to each other.
adjacentSquares(p, q) ==
  /\ p # q
  /\ p.row - q.row \in { -1, 0, 1 }
  /\ p.col - q.col \in { -1, 0, 1 }

\* C20, amended: on such a board isCheckmate(board, white) is true when the black king
\* stands next to its queen, and false when it does not.
ProtectedQueenMates ==
  \A blackKing \in Squares :
    queenBesideKingAsked(blackKing) => (result = adjacentSquares(blackKing, Pos(6, 6)))

\* isCheckmate has answered true for white with the black king next to its queen.
ProtectedQueenWitness ==
  \E blackKing \in Squares :
    /\ queenBesideKingAsked(blackKing)
    /\ adjacentSquares(blackKing, Pos(6, 6))
    /\ result

\* ------------------------------------------------ the evaluator, stated apart
occupiedSquares(b) == { q \in Squares : b[q.row][q.col] # NoPiece }

RECURSIVE SumOver(_, _)
SumOver(S, f) ==
  IF S = {} THEN 0
  ELSE LET x == CHOOSE y \in S : TRUE
       IN f[x] + SumOver(S \ {x}, f)

hasNoLegalMove(b, color) == legalMovesOf(b, color, NoPos, DefaultCastlingRights) = {}
isMated(b, color) == isKingInCheck(b, color) /\ hasNoLegalMove(b, color)
isStalemated(b, color) == ~isKingInCheck(b, color) /\ hasNoLegalMove(b, color)
isDecided(b) ==
  \/ isMated(b, WHITE) \/ isMated(b, BLACK)
  \/ isStalemated(b, WHITE) \/ isStalemated(b, BLACK)

colorSign(piece) == IF piece.color = BLACK THEN 1 ELSE -1

\* The four terms of the evaluation other than the positional one.
otherTerms(b) ==
  evaluateMaterial(b) + evaluateKingSafety(b) + evaluateMobility(<< b >>, 1).ret

evaluated == called = "evaluateBoard"

\* C15: evaluateBoard returns exactly +10000 when white is checkmated, exactly
\* -10000 when black is checkmated and exactly 0 when either color is
\* stalemated, whatever the material and the placement; only when none of
\* these holds does it return material + positional + king safety + mobility.
EvaluateBoardTerminalValues ==
  evaluated =>
    /\ isMated(args.board, WHITE) => result = 10000
    /\ isMated(args.board, BLACK) => result = -10000
    /\ (isStalemated(args.board, WHITE) \/ isStalemated(args.board, BLACK)) => result = 0
    /\ ~isDecided(args.board) =>
         result = evaluatePositions(args.board) + otherTerms(args.board)

\* Black is mated while white is a queen ahead in material.
EvaluateBoardTerminalWitness ==
  /\ evaluated
  /\ isMated(args.board, BLACK)
  /\ evaluateMaterial(args.board) # 0
  /\ result = -10000

\* C16 as stated: the positional term looks every piece up in the table of
\* its type at the piece's own cell (row, col), white and black alike, added
\* for black and subtracted for white; the flip has no effect.
PositionalAtActualCell ==
  (evaluated /\ ~isDecided(args.board)) =>
    result = otherTerms(args.board)
             + SumOver(occupiedSquares(args.board),
                       [q \in Squares |->
                          LET piece == args.board[q.row][q.col]
                          IN IF piece = NoPiece THEN 0
                             ELSE colorSign(piece)
                                  * PIECE_SQUARE_TABLES[piece.type][q.row + 1][q.col + 1]])

\* The cell the table of a piece is read at: its own cell for black, the
\* cell opposite through the centre of the board for white.
tableCell(piece, q) ==
  IF piece.color = BLACK THEN q ELSE Pos(7 - q.row, 7 - q.col)

\* C16 amended: the positional term looks every piece up in the table of its
\* type, a black piece at its own cell (row, col) and a white piece at the
\* opposite cell (7 - row, 7 - col), added for black and subtracted for white.
PositionalAtFlippedCell ==
  (evaluated /\ ~isDecided(args.board)) =>
    result = otherTerms(args.board)
             + SumOver(occupiedSquares(args.board),
                       [q \in Squares |->
                          LET piece == args.board[q.row][q.col]
                              cell == tableCell(piece, q)
                          IN IF piece = NoPiece THEN 0
                             ELSE colorSign(piece)
                                  * PIECE_SQUARE_TABLES[piece.type][cell.row + 1][cell.col + 1]])

\* An undecided position with a white piece whose table differs between its
\* own cell and the opposite one.
PositionalFlippedWitness ==
  /\ evaluated
  /\ ~isDecided(args.board)
  /\ \E q \in occupiedSquares(args.board) :
       LET piece == args.board[q.row][q.col]
       IN /\ piece.color = WHITE
          /\ PIECE_SQUARE_TABLES[piece.type][q.row + 1][q.col + 1]
               # PIECE_SQUARE_TABLES[piece.type][8 - q.row][8 - q.col]

kingSquares(b) == { q \in occupiedSquares(b) : b[q.row][q.col].type = "king" }

kingTable(b) ==
  IF isEndgamePhase(b) THEN PIECE_SQUARE_TABLES.kingEndgame ELSE PIECE_SQUARE_TABLES.king

\* C17: when the endgame predicate holds, the positional value each king
\* contributes to evaluateBoard is taken from the endgame king table, and
\* from the regular king table otherwise (read at the king's own cell or at
\* the opposite one).
KingUsesEndgameTable ==
  (evaluated /\ ~isDecided(args.board)) =>
    \E flipped \in [kingSquares(args.board) -> BOOLEAN] :
      result = otherTerms(args.board)
               + SumOver(occupiedSquares(args.board) \ kingSquares(args.board),
                         [q \in Squares |->
                            IF args.board[q.row][q.col] = NoPiece THEN 0
                            ELSE colorSign(args.board[q.row][q.col])
                                 * positionValue(args.board, q.row, q.col)])
               + SumOver(kingSquares(args.board),
                         [q \in kingSquares(args.board) |->
                            LET cell == IF flipped[q] THEN Pos(7 - q.row, 7 - q.col) ELSE q
                            IN colorSign(args.board[q.row][q.col])
                               * kingTable(args.board)[cell.row + 1][cell.col + 1]])

\* ------------------------------------------------- the search at depth one
searchedAtDepthOne == called = "findBestMove" /\ args.depth = 1

moverColor == IF args.isBlack THEN BLACK ELSE WHITE

moverLegalMoves == legalMovesOf(args.board, moverColor, fnEnPassantTarget, fnCastlingRights)

evaluationAfter(move) == evaluateBoard(<< boardAfter(args.board, move) >>, 1).ret

\* C18: findBestMove at depth 1 returns a legal move of the side to move
\* whose resulting evaluateBoard is >= that of every other legal move when
\* black moves and <= that of every other legal move when white moves; with
\* no legal move it returns none.
BestMoveAtDepthOne ==
  searchedAtDepthOne =>
    IF moverLegalMoves = {} THEN result = NoMove
    ELSE /\ result \in moverLegalMoves
         /\ \E best \in { evaluationAfter(result) } :
              \A move \in moverLegalMoves :
                IF args.isBlack THEN best >= evaluationAfter(move)
                ELSE best <= evaluationAfter(move)

isCaptureMove(move) == move.type \in { "capture", "en-passant", "capture-and-promotion" }

\* Black is to move with exactly one capture among several quiet moves.
BestMoveAtDepthOneWitness ==
  /\ searchedAtDepthOne
  /\ args.isBlack
  /\ Cardinality({ move \in moverLegalMoves : isCaptureMove(move) }) = 1
  /\ Cardinality({ move \in moverLegalMoves : ~isCaptureMove(move) }) >= 2
  /\ result \in moverLegalMoves

\* ------------------------------------------------------ captures and counts
pieceCount(b) == Cardinality(occupiedSquares(b))

\* C19, for the moves the search applies: a move of type capture, en-passant
\* or capture-and-promotion leaves exactly one piece fewer on the board, and
\* a move of any other type leaves the number of pieces unchanged.
CaptureRemovesOnePiece ==
  \A k \in 2 .. Len(frames) :
    LET move == frames[k - 1].allMoves[frames[k - 1].index]
    IN pieceCount(frames[k].board)
         = pieceCount(frames[k - 1].board) - (IF isCaptureMove(move) THEN 1 ELSE 0)

\* ------------------------------------------------------ castling and check
isCastlingMove(move) == move.type \in { "castle-kingside", "castle-queenside" }

\* The board with the king of a castling move put on square instead.
kingPutOn(b, move, square) ==
  [[b EXCEPT ![move.from.row][move.from.col] = NoPiece]
      EXCEPT ![square.row][square.col] = move.piece]

\* The square the king of a castling move passes over.
passedSquare(move) == Pos(move.from.row, (move.from.col + move.to.col) \div 2)

\* C22: no castling move that filterLegalMoves keeps has its king in check
\* before castling, passes its king over a square the opponent attacks, or
\* ends with its king in check.
NoCastlingThroughCheck ==
  called = "filterLegalMoves" =>
    \A i \in DOMAIN result :
      (isCastlingMove(result[i]) /\ result[i].piece.color = args.color) =>
        /\ ~isKingInCheck(args.board, args.color)
        /\ ~isKingInCheck(kingPutOn(args.board, result[i], passedSquare(result[i])),
                          args.color)
        /\ ~isKingInCheck(boardAfter(args.board, result[i]), args.color)

\* ------------------------------------------------------ the game in check
opponentOf(color) == IF color = WHITE THEN BLACK ELSE WHITE

computerToMove == currentPlayer = BLACK /\ gameMode # "two-player"

\* C23: whenever gameState is check the checked player can still move: when
\* the computer is to move its turn is scheduled, and otherwise a click on an
\* own piece that has a legal move is accepted.
CheckedPlayerCanMove ==
  gameState = "check" =>
    IF computerToMove THEN aiTimer # "none"
    ELSE \E position \in Squares :
           /\ board[position.row][position.col].color = currentPlayer
           /\ Len(selectPiece(Render, position)) > 0
           /\ ENABLED HandleSquareClick(position)

kingsOf(b, color) ==
  { q \in Squares : b[q.row][q.col].type = "king" /\ b[q.row][q.col].color = color }

\* C26: in every state of the live game each color has exactly one king on
\* the board and the king of the side that has just moved is not in check.
OneKingEachMoverSafe ==
  /\ \A color \in Colors : Cardinality(kingsOf(board, color)) = 1
  /\ ~isKingInCheck(board, opponentOf(currentPlayer))

\* The black queen has come to h4 and checks or mates the white king.
OneKingEachMoverSafeWitness ==
  /\ Len(moveHistory) >= 4
  /\ isKingInCheck(board, currentPlayer)
  /\ OneKingEachMoverSafe

isOver == gameState \in { "checkmate", "stalemate" }

\* C30: once gameState is checkmate or stalemate no move is applied and no
\* turn of the computer is pending; until the game is restarted, the mode
\* changed or a move undone, nothing of the game changes, whatever is clicked.
GameOverIsFinal ==
  [][isOver =>
       /\ aiTimer = "none"
       /\ ~MoveMade
       /\ (moveHistory' = moveHistory /\ gameMode' = gameMode) => UNCHANGED gameVars]_vars

\* The computer is mated by the queen on f7 and it is its turn.
GameOverWitness ==
  /\ gameState = "checkmate"
  /\ gameMode = "computer-easy"
  /\ currentPlayer = BLACK
  /\ board[1][5].type = "queen"
  /\ Len(moveHistory) = 2 * Len(MatingClicks) + 1

\* ------------------------------------------------------------------- undo
\* The game in which the moves of a history have been made one after the
\* other from the initial position.
RECURSIVE playedOut(_, _, _)
playedOut(g, moves, i) ==
  IF i > Len(moves) THEN g ELSE playedOut(makeMove(g, moves[i]), moves, i + 1)

freshGame ==
  [board |-> parseFEN(INITIAL_POSITION).board,
   capturedPieces |-> [white |-> << >>, black |-> << >>],
   castlingRights |-> parseFEN(INITIAL_POSITION).castlingRights,
   enPassantTarget |-> NoPos,
   moveHistory |-> << >>,
   currentPlayer |-> WHITE,
   gameState |-> "active"]

gameNow ==
  [board |-> board, capturedPieces |-> capturedPieces, castlingRights |-> castlingRights,
   enPassantTarget |-> enPassantTarget, moveHistory |-> moveHistory,
   currentPlayer |-> currentPlayer, gameState |-> gameState]

\* C21: after undoMove the board, side to move, castling rights, en-passant
\* target, captured pieces, move history and game state are those that held
\* right after the last remaining move.
UndoRestoresGame ==
  [][Len(moveHistory') < Len(moveHistory) =>
       gameNow' = playedOut(freshGame, moveHistory', 1)]_vars

\* ------------------------------------------------- the computer's turn
\* performAIMove runs in this step.
AIMovePerformed == aiTimer = "t100" /\ aiTimer' # "t100"

\* C24: every move of the computer is computed from, and applied to, the
\* board, move history, en-passant target and castling rights that are
\* current when it is applied.
AIMoveFromCurrentGame ==
  [][AIMovePerformed =>
       /\ aiClosure.board = board
       /\ aiClosure.moveHistory = moveHistory
       /\ aiClosure.enPassantTarget = enPassantTarget
       /\ aiClosure.castlingRights = castlingRights
       /\ MoveMade => /\ Len(moveHistory') = Len(moveHistory) + 1
                      /\ SubSeq(moveHistory', 1, Len(moveHistory)) = moveHistory]_vars

\* C29: the side to move is white exactly when the move history holds an even
\* number of moves, and the moves of the history are made by white and black
\* pieces in turn, white first.
TurnMatchesHistory ==
  /\ (currentPlayer = WHITE) <=> (Len(moveHistory) % 2 = 0)
  /\ \A i \in DOMAIN moveHistory :
       moveHistory[i].piece.color = (IF i % 2 = 1 THEN WHITE ELSE BLACK)

\* Against the computer, after two moves of each side.
TurnMatchesHistoryWitness ==
  /\ gameMode # "two-player"
  /\ Len(moveHistory) = 4
  /\ currentPlayer = WHITE

\* ------------------------------------------------- the search without pruning
RECURSIVE SeqMax(_, _)
SeqMax(scores, i) ==
  IF i = Len(scores) THEN scores[i] ELSE Max(scores[i], SeqMax(scores, i + 1))

RECURSIVE SeqMin(_, _)
SeqMin(scores, i) ==
  IF i = Len(scores) THEN scores[i] ELSE Min(scores[i], SeqMin(scores, i + 1))

\* minimax over the same moves and evaluator, every move of every node searched.
RECURSIVE plainMinimax(_, _, _, _, _)
plainMinimax(b, depth, isMaximizingPlayer, target, rights) ==
  IF isTerminal(<< b >>, 1, depth).ret THEN evaluateBoard(<< b >>, 1).ret
  ELSE Bind(allLegalMoves(<< b >>, 1, IF isMaximizingPlayer THEN BLACK ELSE WHITE,
                          target, rights).ret,
            LAMBDA moves :
              IF Len(moves) = 0 THEN evaluateBoard(<< b >>, 1).ret
              ELSE Bind([i \in DOMAIN moves |->
                           plainMinimax(boardAfter(b, moves[i]), depth - 1,
                                        ~isMaximizingPlayer, target, rights)],
                        LAMBDA scores :
                          IF isMaximizingPlayer THEN SeqMax(scores, 1)
                          ELSE SeqMin(scores, 1)))

\* The first move, in the order of the move generator, with the best plain score.
plainBestMove(b, depth, isBlack, target, rights) ==
  Bind(allLegalMoves(<< b >>, 1, IF isBlack THEN BLACK ELSE WHITE, target, rights).ret,
       LAMBDA moves :
         IF Len(moves) = 0 THEN NoMove
         ELSE Bind([i \in DOMAIN moves |->
                      plainMinimax(boardAfter(b, moves[i]), depth - 1, ~isBlack, target,
                                   rights)],
                   LAMBDA scores :
                     LET best == IF isBlack THEN SeqMax(scores, 1) ELSE SeqMin(scores, 1)
                     IN moves[CHOOSE i \in DOMAIN moves :
                                /\ scores[i] = best
                                /\ \A j \in 1 .. (i - 1) : scores[j] # best]))

searchReturned == called = "findBestMove" /\ frames = << >> /\ result # << >>

\* C27: for depth >= 1 a call of minimax made with the window (-Infinity,
\* Infinity) returns the value of minimax without pruning, and findBestMove
\* returns the move a search without pruning in the same move order returns.
PruningKeepsResult ==
  /\ (Len(frames) = 2 /\ frameDone(frames[2]) /\ frames[1].depth >= 1) =>
       frames[2].best = plainMinimax(frames[2].board, frames[2].depth,
                                     frames[2].isMaximizingPlayer,
                                     frames[2].enPassantTarget, frames[2].castlingRights)
  /\ (searchReturned /\ args.depth >= 1) =>
       result = plainBestMove(args.board, args.depth, args.isBlack, fnEnPassantTarget,
                              fnCastlingRights)

\* A loop of minimax has broken off before its last move.
PruningWitness ==
  \E k \in DOMAIN frames :
    /\ frames[1].depth >= 1
    /\ frames[k].broken
    /\ frames[k].index < Len(frames[k].allMoves)

GameOverOnlyWithoutMoves ==
  isOver =>
    \A position \in Squares :
      board[position.row][position.col].color = currentPlayer =>
        Len(selectPiece(Render, position)) = 0

====
